---- MODULE Spec2Model ----
(***************************************************************************)
(* Bitcoin message signature verification (verify / verifySafe), the two   *)
(* command-line front ends and the JSON-RPC client of                      *)
(* mothepro/verify-bitcoin-message.                                        *)
(*                                                                         *)
(* TLC integers are 32 bits wide, so the 256-bit curve is replaced by the  *)
(* curve of the same equation y^2 = x^3 + 7 over the field of 43 elements  *)
(* (43 = 3 mod 4, group of prime order 31, 31 < 43, as for secp256k1), and *)
(* the platform's SHA-256 and the RIPEMD-160 digest by one-byte stand-ins. *)
(* Signatures keep their 65 bytes and encoded keys their 33 / 65 bytes;    *)
(* r, s and the coordinates are 32-byte big-endian numbers whose leading   *)
(* bytes are zero.  Strings are sequences of character codes.              *)
(***************************************************************************)
EXTENDS Integers, Sequences, FiniteSets, TLC

\* ------------------------------------------------------------------------
\* Bounds of the explored inputs
\* ------------------------------------------------------------------------

\* Messages are all strings over MessageAlphabet of at most this length
\* (plus the fixed strings of OtherMessages).
MaxMsgLen == 1

\* Private keys 1..MaxPrivKey: their public keys own the claimed addresses.
MaxPrivKey == 1

\* Signature components r and s range over 0..MaxScalar (and the edge values
\* around the group order and the field prime).
MaxScalar == 2

\* The strings handed to parsePayload on its own have at most this length.
MaxTextLen == 4
\* how many times a service worker is installed (the first one and its updates)
MaxGenerations == 2
\* the calls the engine's stack has room for
MaxCallStack == 8
\* how many verifySignature calls of the demo page wait for verify at once
MaxPendingRuns == 2

\* ------------------------------------------------------------------------
\* JavaScript values
\* ------------------------------------------------------------------------

JsUndefined == [t |-> "undefined", b |-> FALSE, n |-> 0, s |-> ""]
JsNull == [t |-> "null", b |-> FALSE, n |-> 0, s |-> ""]
JsBool(v) == [t |-> "boolean", b |-> v, n |-> 0, s |-> ""]
JsNum(v) == [t |-> "number", b |-> FALSE, n |-> v, s |-> ""]
JsStr(v) == [t |-> "string", b |-> FALSE, n |-> 0, s |-> v]
\* a plain object, identified by a label (a JSON-RPC error object)
JsObj(v) == [t |-> "object", b |-> FALSE, n |-> 0, s |-> v]
\* an Error instance with the given message
JsError(v) == [t |-> "error", b |-> FALSE, n |-> 0, s |-> v]

\* ToBoolean
Truthy(v) ==
  CASE v.t = "undefined" -> FALSE
    [] v.t = "null" -> FALSE
    [] v.t = "boolean" -> v.b
    [] v.t = "number" -> v.n # 0
    [] v.t = "string" -> v.s # ""
    [] OTHER -> TRUE

\* String(v) for the values that occur as error reasons
JsToString(v) ==
  CASE v.t = "undefined" -> "undefined"
    [] v.t = "null" -> "null"
    [] v.t = "boolean" -> IF v.b THEN "true" ELSE "false"
    [] v.t = "string" -> v.s
    [] v.t = "error" -> "Error: " \o v.s
    [] OTHER -> "[object Object]"

\* src/verify.ts fail(): throw error instanceof Error ? error : new Error(error)
\* new Error(undefined) has the empty message.
fail(error) ==
  IF error.t = "error" THEN error
  ELSE IF error.t = "undefined" THEN JsError("")
  ELSE JsError(JsToString(error))

\* ------------------------------------------------------------------------
\* Sequences of bytes and characters
\* ------------------------------------------------------------------------

\* Array.prototype.slice(from, to) on 0-based indices, to exclusive
Slice(seq, from, to) ==
  LET hi == IF to > Len(seq) THEN Len(seq) ELSE to
  IN IF from >= hi THEN <<>> ELSE SubSeq(seq, from + 1, hi)

Zeros(n) == [i \in 1..n |-> 0]

\* String.prototype.padStart(n, '0') on a sequence of digits
PadStart(seq, n) == IF Len(seq) >= n THEN seq ELSE Zeros(n - Len(seq)) \o seq

\* JavaScript's % on bigints truncates toward zero (sign of the dividend)
Rem(a, m) == IF a >= 0 THEN a % m ELSE -((-a) % m)

\* bigint.toString(16) as a sequence of hex digit values
RECURSIVE toString16(_)
toString16(n) ==
  IF n < 16 THEN <<n>> ELSE Append(toString16(n \div 16), n % 16)

\* bytesToHex: every byte as two hex digits
bytesToHex(bytes) ==
  [i \in 1..(2 * Len(bytes)) |->
     IF i % 2 = 1 THEN bytes[(i + 1) \div 2] \div 16 ELSE bytes[i \div 2] % 16]

\* the number of leading elements of seq equal to v
LeadingCount(seq, v) ==
  Cardinality({i \in 1..Len(seq) : \A j \in 1..i : seq[j] = v})

\* the digits from position i on, acc the value of the digits before
RECURSIVE HexDigitsValue(_, _, _)
HexDigitsValue(hex, i, acc) ==
  IF i > Len(hex) THEN acc ELSE HexDigitsValue(hex, i + 1, acc * 16 + hex[i])

\* BigInt('0x' + hex); leading zero digits contribute nothing
HexToBigInt(hex) == HexDigitsValue(hex, LeadingCount(hex, 0) + 1, 0)

BytesToBigInt(bytes) == HexToBigInt(bytesToHex(bytes))

\* x.toString(16).padStart(64, '0') read back two digits per byte: the
\* 32-byte big-endian representation of a coordinate
CoordBytes(v) ==
  LET hex == PadStart(toString16(v), 64)
  IN [i \in 1..32 |-> 16 * hex[2 * i - 1] + hex[2 * i]]

\* ------------------------------------------------------------------------
\* Base64 (the platform's atob) and Base58
\* ------------------------------------------------------------------------

\* A Base64 string is a sequence of sextet values 0..63 (the position of the
\* character in the Base64 alphabet), B64Pad for '=' and B64Bad for a
\* character outside the alphabet.
B64Pad == 64
B64Bad == 65

\* '=' padding is stripped only from a string whose length is a multiple of 4
StripPadding(str) ==
  LET n == Len(str)
  IN IF n > 0 /\ n % 4 = 0 /\ str[n] = B64Pad
     THEN IF str[n - 1] = B64Pad THEN SubSeq(str, 1, n - 2)
          ELSE SubSeq(str, 1, n - 1)
     ELSE str

\* atob throws InvalidCharacterError on these strings
AtobThrows(base64) ==
  LET data == StripPadding(base64)
  IN \/ Len(data) % 4 = 1
     \/ \E i \in 1..Len(data) : data[i] >= B64Pad

\* the bytes of four (or a final two or three) sextets
\* (a final group of two sextets gives one byte, of three gives two)
DecodeSextets(data) ==
  LET n == 3 * (Len(data) \div 4)
           + (IF Len(data) % 4 = 0 THEN 0 ELSE (Len(data) % 4) - 1)
  IN [k \in 1..n |->
        LET g == 4 * ((k - 1) \div 3)
        IN CASE k % 3 = 1 -> data[g + 1] * 4 + (data[g + 2] \div 16)
             [] k % 3 = 2 -> (data[g + 2] % 16) * 16 + (data[g + 3] \div 4)
             [] OTHER -> (data[g + 3] % 4) * 64 + data[g + 4]]

\* base64ToBytes where atob does not throw: charCodeAt of every decoded char
base64ToBytes(base64) == DecodeSextets(StripPadding(base64))

\* btoa, used to write down the signatures handed to verify
BytesToBase64(bytes) ==
  LET n == Len(bytes)
      byte(i) == IF i <= n THEN bytes[i] ELSE 0
  IN [k \in 1..(4 * ((n + 2) \div 3)) |->
        LET g == 3 * ((k - 1) \div 4)
        IN CASE k % 4 = 1 -> byte(g + 1) \div 4
             [] k % 4 = 2 -> (byte(g + 1) % 4) * 16 + (byte(g + 2) \div 16)
             [] k % 4 = 3 -> IF g + 2 > n THEN B64Pad
                             ELSE (byte(g + 2) % 16) * 4 + (byte(g + 3) \div 64)
             [] OTHER -> IF g + 3 > n THEN B64Pad ELSE byte(g + 3) % 64]

\* BASE58_ALPHABET.length; a Base58 string is a sequence of positions
\* 0..57 in the alphabet ('1' is position 0), NotBase58 for any character
\* outside it (alphabet.indexOf gives -1)
Base58 == 58
NotBase58 == 99

\* num = num * 256 + byte over the whole array
RECURSIVE BytesToNum(_, _)
BytesToNum(bytes, num) ==
  IF bytes = <<>> THEN num ELSE BytesToNum(Tail(bytes), num * 256 + Head(bytes))

\* repeated division by the base, most significant digit first
RECURSIVE Digits(_, _)
Digits(num, base) ==
  IF num = 0 THEN <<>> ELSE Append(Digits(num \div base, base), num % base)

base58Encode(bytes) ==
  [i \in 1..LeadingCount(bytes, 0) |-> 0] \o Digits(BytesToNum(bytes, 0), Base58)

\* base58Decode throws on a character outside the alphabet
Base58DecodeThrows(s) == \E i \in 1..Len(s) : s[i] \notin 0..(Base58 - 1)

RECURSIVE Base58ToNum(_, _)
Base58ToNum(s, num) ==
  IF s = <<>> THEN num ELSE Base58ToNum(Tail(s), num * Base58 + Head(s))

base58Decode(s) ==
  Zeros(LeadingCount(s, 0)) \o Digits(Base58ToNum(s, 0), 256)

\* ------------------------------------------------------------------------
\* Digests.  crypto.subtle.digest('SHA-256') is the platform's; it and the
\* RIPEMD-160 of the repository are replaced by deterministic one-byte
\* digests (the arithmetic of the model has 32 bits).
\* ------------------------------------------------------------------------

\* digest lengths in bytes (32 and 20 in the program, 4 checksum bytes)
Sha256Len == 1
Ripemd160Len == 1
ChecksumLen == 1

\* base^exp modulo mod by squaring
RECURSIVE PowMod(_, _, _)
PowMod(base, exp, mod) ==
  IF exp = 0 THEN 1 % mod
  ELSE LET half == PowMod(base, exp \div 2, mod)
       IN IF exp % 2 = 0 THEN (half * half) % mod
          ELSE (((half * half) % mod) * base) % mod

\* the polynomial sum of (data[i] + 1) * mul^(hi - i), i in lo..hi, modulo mod
RECURSIVE DigestPoly(_, _, _, _, _)
DigestPoly(data, lo, hi, mul, mod) ==
  IF lo > hi THEN 0
  ELSE IF lo = hi THEN (data[lo] + 1) % mod
  ELSE LET mid == (lo + hi) \div 2
       IN (DigestPoly(data, lo, mid, mul, mod) * PowMod(mul, hi - mid, mod)
           + DigestPoly(data, mid + 1, hi, mul, mod)) % mod

\* every byte folded into the state: h := (h * mul + byte + 1) % mod
DigestFold(data, h, mul, mod) ==
  (h * PowMod(mul, Len(data), mod) + DigestPoly(data, 1, Len(data), mul, mod)) % mod

sha256(data) == << DigestFold(data, 7 + Len(data), 33, 251) >>

doubleSha256(data) == sha256(sha256(data))

ripemd160(data) == << DigestFold(data, 11, 29, 239) >>

\* ------------------------------------------------------------------------
\* The curve
\* ------------------------------------------------------------------------

\* field prime and group order
SECP256K1_P == 43
SECP256K1_N == 31

\* a point is a record [x, y]; null stands for the point at infinity / "no key"
null == [x |-> -1, y |-> -1]

\* generator
G == [x |-> 2, y |-> 12]

\* the loop of modInverse: extended Euclid on (old_r, r), (old_s, s)
RECURSIVE ModInverseLoop(_, _, _, _, _)
ModInverseLoop(old_r, r, old_s, s, m) ==
  IF r # 0
  THEN LET quotient == old_r \div r
       IN ModInverseLoop(r, old_r - quotient * r, s, old_s - quotient * s, m)
  ELSE IF old_r > 1 THEN 0 ELSE IF old_s < 0 THEN old_s + m ELSE old_s

modInverse(a, m) ==
  LET a1 == IF a < 0 THEN Rem(Rem(a, m) + m, m) ELSE a
  IN ModInverseLoop(a1, m, 1, 0, m)

pointAdd(p1, p2) ==
  IF p1 = null THEN p2
  ELSE IF p2 = null THEN p1
  ELSE IF p1.x = p2.x
  THEN IF p1.y = p2.y
       THEN \* point doubling
            LET s == Rem(3 * p1.x * p1.x * modInverse(2 * p1.y, SECP256K1_P), SECP256K1_P)
                x3 == Rem(s * s - 2 * p1.x, SECP256K1_P)
                y3 == Rem(s * (p1.x - x3) - p1.y, SECP256K1_P)
            IN [x |-> IF x3 < 0 THEN x3 + SECP256K1_P ELSE x3,
                y |-> IF y3 < 0 THEN y3 + SECP256K1_P ELSE y3]
       ELSE null
  ELSE LET s == Rem((p2.y - p1.y) * modInverse(p2.x - p1.x, SECP256K1_P), SECP256K1_P)
           x3 == Rem(s * s - p1.x - p2.x, SECP256K1_P)
           y3 == Rem(s * (p1.x - x3) - p1.y, SECP256K1_P)
       IN [x |-> IF x3 < 0 THEN x3 + SECP256K1_P ELSE x3,
           y |-> IF y3 < 0 THEN y3 + SECP256K1_P ELSE y3]

\* the while loop of pointMultiply: double and add
RECURSIVE PointMultiplyLoop(_, _, _)
PointMultiplyLoop(k, result, addend) ==
  IF k > 0
  THEN PointMultiplyLoop(k \div 2,
                         IF k % 2 = 1 THEN pointAdd(result, addend) ELSE result,
                         pointAdd(addend, addend))
  ELSE result

pointMultiply(k, point) ==
  IF k = 0 THEN null
  ELSE IF k = 1 THEN point
  ELSE PointMultiplyLoop(k, null, point)

RECURSIVE ModPowLoop(_, _, _, _)
ModPowLoop(result, base, exp, mod) ==
  IF exp > 0
  THEN ModPowLoop(IF exp % 2 = 1 THEN (result * base) % mod ELSE result,
                  (base * base) % mod, exp \div 2, mod)
  ELSE result

modPow(base, exp, mod) == ModPowLoop(1, base % mod, exp, mod)

\* recoverPublicKey without the return on a missing sR or eG
recoverPublicKeyNoNullCheck(messageHash, signature, recoveryId) ==
  IF Len(signature) # 64 THEN null
  ELSE
    LET r == BytesToBigInt(Slice(signature, 0, 32))
        s == BytesToBigInt(Slice(signature, 32, 64))
        e == BytesToBigInt(messageHash)
        x == r + (recoveryId \div 2) * SECP256K1_N
        ySq == (x * x * x + 7) % SECP256K1_P
        y0 == modPow(ySq, (SECP256K1_P + 1) \div 4, SECP256K1_P)
        y == IF y0 % 2 # recoveryId % 2 THEN SECP256K1_P - y0 ELSE y0
        R == [x |-> x, y |-> y]
        rInv == modInverse(r, SECP256K1_N)
        sR == pointMultiply(s, R)
        eG == pointMultiply(e, G)
        negEG == [x |-> eG.x, y |-> SECP256K1_P - eG.y]
        diff == pointAdd(sR, IF eG = null THEN null ELSE negEG)
    IN IF r >= SECP256K1_N \/ s >= SECP256K1_N THEN null
       ELSE IF x >= SECP256K1_P THEN null
       ELSE IF diff = null THEN null
       ELSE pointMultiply(rInv, diff)

\* recoverPublicKey(messageHash, signature, recoveryId): a point or null
recoverPublicKey(messageHash, signature, recoveryId) ==
  IF Len(signature) # 64 THEN null
  ELSE
    LET r == BytesToBigInt(Slice(signature, 0, 32))
        s == BytesToBigInt(Slice(signature, 32, 64))
        e == BytesToBigInt(messageHash)
        x == r + (recoveryId \div 2) * SECP256K1_N
        ySq == (x * x * x + 7) % SECP256K1_P
        y0 == modPow(ySq, (SECP256K1_P + 1) \div 4, SECP256K1_P)
        y == IF y0 % 2 # recoveryId % 2 THEN SECP256K1_P - y0 ELSE y0
        R == [x |-> x, y |-> y]
        rInv == modInverse(r, SECP256K1_N)
        sR == pointMultiply(s, R)
        eG == pointMultiply(e, G)
        negEG == [x |-> eG.x, y |-> SECP256K1_P - eG.y]
        diff == pointAdd(sR, negEG)
    IN IF r >= SECP256K1_N \/ s >= SECP256K1_N THEN null
       ELSE IF x >= SECP256K1_P THEN null
       ELSE IF sR = null \/ eG = null THEN null
       ELSE IF diff = null THEN null
       ELSE pointMultiply(rInv, diff)

\* ------------------------------------------------------------------------
\* Message hash and address derivation
\* ------------------------------------------------------------------------

\* TextEncoder.encode: UTF-8 of a string of code points below 0x10000
RECURSIVE Utf8Encode(_)
Utf8Encode(str) ==
  IF str = <<>> THEN <<>>
  ELSE IF Len(str) = 1
  THEN LET c == Head(str)
       IN IF c < 128 THEN <<c>>
          ELSE IF c < 2048 THEN <<192 + (c \div 64), 128 + (c % 64)>>
          ELSE <<224 + (c \div 4096), 128 + ((c \div 64) % 64), 128 + (c % 64)>>
  ELSE LET mid == Len(str) \div 2
       IN Utf8Encode(SubSeq(str, 1, mid)) \o Utf8Encode(SubSeq(str, mid + 1, Len(str)))

\* A non-negative integer of JavaScript, which may exceed 32 bits, is kept
\* as two halves: the number is hi * 65536 + lo with lo in 0..65535.
Uint(hi, lo) == [hi |-> hi, lo |-> lo]
ToUint(n) == Uint(n \div 65536, n % 65536)
UintLess(a, b) == a.hi < b.hi \/ (a.hi = b.hi /\ a.lo < b.lo)
UintLessEq(a, b) == a = b \/ UintLess(a, b)

\* (n >> shift) & 0xff for shift 0, 8, 16 and 24: the shift sees the low 32
\* bits of n only
ShiftAndMask(n, shift) ==
  CASE shift = 0 -> n.lo % 256
    [] shift = 8 -> n.lo \div 256
    [] shift = 16 -> n.hi % 256
    [] OTHER -> (n.hi \div 256) % 256

\* encodeVarint with n < 0xffff for n <= 0xffff
encodeVarintExclusive(n) ==
  IF UintLess(n, ToUint(253)) THEN [threw |-> FALSE, bytes |-> << n.lo >>]
  ELSE IF UintLess(n, Uint(0, 65535))
  THEN [threw |-> FALSE, bytes |-> << 253, ShiftAndMask(n, 0), ShiftAndMask(n, 8) >>]
  ELSE IF UintLessEq(n, Uint(65535, 65535))
  THEN [threw |-> FALSE,
        bytes |-> << 254, ShiftAndMask(n, 0), ShiftAndMask(n, 8),
                     ShiftAndMask(n, 16), ShiftAndMask(n, 24) >>]
  ELSE [threw |-> TRUE, bytes |-> <<>>]

\* encodeVarint: threw is fail('Number too large for varint encoding')
encodeVarint(n) ==
  IF UintLess(n, ToUint(253)) THEN [threw |-> FALSE, bytes |-> << n.lo >>]
  ELSE IF UintLessEq(n, Uint(0, 65535))
  THEN [threw |-> FALSE, bytes |-> << 253, ShiftAndMask(n, 0), ShiftAndMask(n, 8) >>]
  ELSE IF UintLessEq(n, Uint(65535, 65535))
  THEN [threw |-> FALSE,
        bytes |-> << 254, ShiftAndMask(n, 0), ShiftAndMask(n, 8),
                     ShiftAndMask(n, 16), ShiftAndMask(n, 24) >>]
  ELSE [threw |-> TRUE, bytes |-> <<>>]

\* encoder.encode('Bitcoin Signed Message:\n')
PrefixBytes ==
  << 66, 105, 116, 99, 111, 105, 110, 32, 83, 105, 103, 110, 101, 100, 32,
     77, 101, 115, 115, 97, 103, 101, 58, 10 >>

\* varint(prefix_len) + prefix + varint(msg_len) + message
FullMessage(messageBytes) ==
  encodeVarint(ToUint(Len(PrefixBytes))).bytes \o PrefixBytes
    \o encodeVarint(ToUint(Len(messageBytes))).bytes \o messageBytes

createMessageHash(messageBytes) == doubleSha256(FullMessage(messageBytes))

\* the encoded public key: 33 bytes compressed, 65 bytes uncompressed
PublicKeyBytes(publicKey, compressed) ==
  IF compressed
  THEN <<IF publicKey.y % 2 = 0 THEN 2 ELSE 3>> \o CoordBytes(publicKey.x)
  ELSE <<4>> \o CoordBytes(publicKey.x) \o CoordBytes(publicKey.y)

\* version byte of a mainnet pay-to-public-key-hash address
P2PKHVersion == 0

\* steps 1 to 5 of publicKeyToAddress: version + hash160 + checksum
AddressPayload(version, publicKey, compressed) ==
  LET sha256Hash == sha256(PublicKeyBytes(publicKey, compressed))
      ripemd160Hash == ripemd160(sha256Hash)
      versioned == <<version>> \o Slice(ripemd160Hash, 0, Ripemd160Len)
      checksum == doubleSha256(versioned)
  IN versioned \o Slice(checksum, 0, ChecksumLen)

\* publicKeyToAddress with the version byte of a pay-to-script-hash address
publicKeyToAddressVersion5(publicKey, compressed) ==
  base58Encode(AddressPayload(5, publicKey, compressed))

publicKeyToAddress(publicKey, compressed) ==
  base58Encode(AddressPayload(P2PKHVersion, publicKey, compressed))

\* 1 version + hash160 + checksum bytes
AddressLength == 1 + Ripemd160Len + ChecksumLen

\* src/utils.ts getAddressHash160 throws: base58Decode throws, the decoded
\* length is wrong, or the version is not 0x00
getAddressHash160Throws(address) ==
  \/ Base58DecodeThrows(address)
  \/ Len(base58Decode(address)) # AddressLength
  \/ base58Decode(address)[1] # P2PKHVersion

\* ------------------------------------------------------------------------
\* parsePayload (the extended command line hands verify the parsed bytes)
\* ------------------------------------------------------------------------

\* the value of a hex digit character, -1 for any other character
HexValue(c) ==
  IF c \in 48..57 THEN c - 48
  ELSE IF c \in 97..102 THEN c - 87
  ELSE IF c \in 65..70 THEN c - 55
  ELSE -1

\* \s of the regular expression, for the characters of the model
IsSpace(c) == c \in {9, 10, 13, 32}

RECURSIVE RemoveSpaces(_)
RemoveSpaces(str) ==
  IF str = <<>> THEN <<>>
  ELSE IF IsSpace(Head(str)) THEN RemoveSpaces(Tail(str))
  ELSE <<Head(str)>> \o RemoveSpaces(Tail(str))

\* toHexString: does the string pass the three assertions
LooksHex(str) ==
  /\ Len(str) >= 2 /\ str[1] = 48 /\ str[2] = 120
  /\ Len(str) % 2 = 0
  /\ Len(str) >= 3
  /\ \A i \in 3..Len(str) : HexValue(str[i]) >= 0 \/ IsSpace(str[i])

\* toHexString returning str.substring(2) as it is
toHexStringKeepSpaces(str) == SubSeq(str, 3, Len(str))

\* toHexString where it does: str.substring(2) without white space
toHexString(str) == RemoveSpaces(SubSeq(str, 3, Len(str)))

\* toHexString's result: undefined, or the hex text
NoHex == [defined |-> FALSE, text |-> <<>>]
HexText(text) == [defined |-> TRUE, text |-> text]

\* let hex = toHexString(utf8)
HexOf(str) == IF LooksHex(str) THEN HexText(toHexString(str)) ELSE NoHex

\* parsePayload(...).message.bytes for a string message
ParsedBytes(message) ==
  IF LooksHex(message) /\ toHexString(message) # <<>>
  THEN LET hex == toHexString(message)
       IN [i \in 1..(Len(hex) \div 2) |->
             16 * HexValue(hex[2 * i - 1]) + HexValue(hex[2 * i])]
  ELSE Utf8Encode(message)

\* parsePayload(...).message for a string message: utf8 = String(message)
parsePayload(message) ==
  [bytes |-> ParsedBytes(message), utf8 |-> message, hex |-> HexOf(message)]

\* ------------------------------------------------------------------------
\* The inputs
\* ------------------------------------------------------------------------

RECURSIVE StringsUpTo(_, _)
StringsUpTo(alphabet, n) ==
  IF n = 0 THEN {<<>>}
  ELSE LET shorter == StringsUpTo(alphabet, n - 1)
       IN shorter \cup {Append(str, c) : str \in shorter, c \in alphabet}

\* 'a'
MessageAlphabet == {97}

\* "0x61": the byte of 'a' written in hex
OtherMessages == {<<48, 120, 54, 49>>}

Messages == StringsUpTo(MessageAlphabet, MaxMsgLen) \cup OtherMessages

\* the public keys whose addresses are claimed
PublicKeys == {pointMultiply(d, G) : d \in 1..MaxPrivKey}

\* well-formed addresses of the public keys; one with a nonzero version
\* byte; a payload that is too short and a string with a character outside
\* the Base58 alphabet
Addresses ==
  {base58Encode(AddressPayload(P2PKHVersion, Q, c)) : Q \in PublicKeys, c \in BOOLEAN}
    \cup {base58Encode(AddressPayload(5, G, FALSE)),
          base58Encode(<<0, 17>>),
          <<0, NotBase58, 3>>}

\* r and s: the small scalars and the values around the group order
Scalars == (0..MaxScalar) \cup {SECP256K1_N - 1, SECP256K1_N}

SignatureBytes(flag, r, s) == <<flag>> \o CoordBytes(r) \o CoordBytes(s)

\* Base64 strings: 65-byte signatures with a flag in range, with a flag out
\* of range, of 64 and 66 bytes, the empty string, a string with a character
\* outside the alphabet and one whose length atob rejects
Signatures ==
  {BytesToBase64(SignatureBytes(27, r, s)) : r \in Scalars, s \in Scalars}
    \cup {BytesToBase64(SignatureBytes(34, r, r)) : r \in 1..MaxScalar}
    \cup {BytesToBase64(SignatureBytes(flag, 2, 1)) : flag \in {26, 35}}
    \cup {BytesToBase64(Slice(SignatureBytes(27, 2, 1), 0, 64)),
          BytesToBase64(Append(SignatureBytes(27, 2, 1), 1)),
          <<>>, <<7, B64Bad, 1, 2>>, <<7, 1, 2, 3, 4>>}

Payloads ==
  [address : Addresses, message : Messages, signature : Signatures]

\* the callers of verify: verifySafe, bitcoin-verify (cli1) and
\* verify-bitcoin-message (cli2)
Entries == {"verifySafe", "cli1", "cli2"}

\* ------------------------------------------------------------------------
\* State
\* ------------------------------------------------------------------------

VARIABLES
  entry,          \* the caller of verify
  payload,        \* {address, message, signature} as given by the caller
  pc,             \* the statement the single thread of control is at
  message,        \* verify's message argument: [isString, value]
  sigBytes,       \* verify: the decoded signature
  signatureData,  \* verify: sigBytes.slice(1)
  messageHash,    \* verify: createMessageHash(messageBytes)
  testRecoveryId, \* verify: the loop variable
  publicKey,      \* verify: recoverPublicKey(...) of the current id
  compressed,     \* verify: the inner loop variable
  calls,          \* the cryptographic operations executed so far, in order
  outcome,        \* how verify's promise settled
  returned,       \* how the entry point's promise settled (verifySafe)
  valid,          \* command line: let valid
  error,          \* command line: let error
  stdout,         \* command line: what console.log printed
  stderr,         \* number of console.error calls
  exitCode,       \* command line: process.exit's argument, -1 while running
  request,        \* JSON-RPC client: the body posted by fetch
  response,       \* JSON-RPC client: the body of the response fetch resolved with
  options,        \* command line: the options given besides the payload
  parsed,         \* parsePayload: the string message and the result
  varint,         \* encodeVarint: the number and the result
  caches,         \* service worker: CacheStorage, cache name |-> the request URLs stored
  worker,         \* service worker: its lifecycle state
  activation,     \* service worker: handleActivate's cacheNames and running deletions
  fetchEvent,     \* service worker: the fetch event being handled
  pendingPuts,    \* service worker: the cacheResource calls not yet finished
  messageEvent,   \* service worker: the last message event and what its handler did
  body,           \* demo page: document.body.classList
  form,           \* demo page: the values of the address, message and signature inputs
  runs,           \* demo page: the verifySignature calls waiting for verify, oldest first
  page,           \* demo page: the URL, the JSON view and the outcome panel
  event,          \* demo page: the task that ran last, with the text of a paste
  latest          \* demo page: the payload of the verifySignature call started last

\* the variables of verify, its callers and the JSON-RPC client
coreVars ==
  << entry, payload, pc, message, sigBytes, signatureData, messageHash,
     testRecoveryId, publicKey, compressed, calls, outcome, returned,
     valid, error, stdout, stderr, exitCode, request, response, options >>

\* the variables of the two functions called on their own
pureVars == << parsed, varint >>

\* the variables of the demo page
demoVars == << body, form, runs, page, event, latest >>

\* the variables of the service worker
swVars == << caches, worker, activation, fetchEvent, pendingPuts, messageEvent >>

\* the variables verify, its callers and the JSON-RPC client leave alone
otherVars == << pureVars, swVars, demoVars >>

vars == << coreVars, otherVars >>

verifyVars ==
  << sigBytes, signatureData, messageHash, testRecoveryId, publicKey, compressed >>

cliVars == << valid, error, stdout, exitCode >>

Pending == [state |-> "pending", value |-> JsUndefined]
Resolved(v) == [state |-> "resolved", value |-> v]
Rejected(e) == [state |-> "rejected", value |-> e]

\* what console.log printed: nothing, the confirmation line, or the result
\* object (its valid and error fields)
NoOutput == [kind |-> "none", valid |-> JsUndefined, error |-> JsUndefined]
SuccessLine == [kind |-> "line", valid |-> JsUndefined, error |-> JsUndefined]
JsonObject(v, e) == [kind |-> "json", valid |-> v, error |-> e]

\* nothing posted, nothing received
NoRequest == [method |-> "", params |-> <<>>]
NoResponse == [kind |-> "none", result |-> JsUndefined, error |-> JsUndefined]

\* the command line without --hex: the option's default is undefined
NoOptions == [hex |-> JsUndefined]

\* the state every entry point starts from
Start ==
  /\ message = [isString |-> TRUE, value |-> payload.message]
  /\ sigBytes = <<>>
  /\ signatureData = <<>>
  /\ messageHash = <<>>
  /\ testRecoveryId = 0
  /\ publicKey = null
  /\ compressed = TRUE
  /\ calls = <<>>
  /\ outcome = Pending
  /\ returned = Pending
  /\ valid = JsBool(FALSE)
  /\ error = JsUndefined
  /\ stdout = NoOutput
  /\ stderr = 0
  /\ exitCode = -1
  /\ request = NoRequest
  /\ response = NoResponse

\* the results before the call
NoParsedMessage == [bytes |-> <<>>, utf8 |-> <<>>, hex |-> NoHex]
NoVarint == [threw |-> FALSE, bytes |-> <<>>]

\* neither function has been called
PureIdle ==
  /\ parsed = [message |-> <<>>, called |-> FALSE, result |-> NoParsedMessage]
  /\ varint = [n |-> ToUint(0), called |-> FALSE, result |-> NoVarint]

\* CacheStorage without a cache
NoCaches == [name \in {} |-> {}]

\* no worker registered, no event dispatched
NoWorker == [state |-> "none", skipWaiting |-> FALSE, claimed |-> FALSE, generation |-> 0]
NoActivation == [before |-> NoCaches, pending |-> {}]
NoSwRequest ==
  [origin |-> <<>>, pathname |-> <<>>, method |-> "", mode |-> "",
   multipart |-> FALSE, files |-> <<>>]
NoSwResponse == [kind |-> "none", url |-> <<>>, params |-> <<>>]
NoFetchEvent ==
  [request |-> NoSwRequest, handledBy |-> "none", pc |-> "idle", seen |-> NoCaches,
   fetches |-> 0, response |-> NoSwResponse]
NoMessageEvent ==
  [data |-> [present |-> FALSE, type |-> JsUndefined], dispatched |-> FALSE,
   result |-> "none", logged |-> "", skipWaiting |-> FALSE, replied |-> FALSE]

\* the page has no service worker
SwIdle ==
  /\ caches = NoCaches
  /\ worker = NoWorker
  /\ activation = NoActivation
  /\ fetchEvent = NoFetchEvent
  /\ pendingPuts = {}
  /\ messageEvent = NoMessageEvent

\* no demo page is open
NoPayload == [address |-> <<>>, message |-> <<>>, signature |-> <<>>]
NoPage ==
  [url |-> [address |-> <<>>, message |-> <<>>, signature |-> <<>>, isHex |-> ""],
   json |-> NoPayload,
   panel |-> [address |-> <<>>, message |-> <<>>, errorReason |-> ""]]
NoEvent == [task |-> "", text |-> <<>>]

DemoIdle ==
  /\ body = {}
  /\ form = NoPayload
  /\ runs = <<>>
  /\ page = NoPage
  /\ event = NoEvent
  /\ latest = NoPayload

Init ==
  /\ PureIdle
  /\ SwIdle
  /\ DemoIdle
  /\ options = NoOptions
  /\ entry \in Entries
  /\ payload \in Payloads
  /\ pc = IF entry = "cli2" THEN "parsePayload" ELSE "decode"
  /\ Start

\* ------------------------------------------------------------------------
\* verify (src/verify.ts 43-78)
\* ------------------------------------------------------------------------

\* expected signature length, the range of the recovery flag and the number
\* of recovery ids tried
SignatureLength == 65
MinRecoveryFlag == 27
MaxRecoveryFlag == 34
RecoveryIds == 4

\* verify's promise settles; control returns to the caller
Settle(o) ==
  /\ outcome' = o
  /\ pc' = "settled"

Called(op, id, c) == [op |-> op, id |-> id, compressed |-> c]

\* const sigBytes = base64ToBytes(signature); assert(sigBytes.length === 65)
VerifyDecode ==
  /\ pc = "decode"
  /\ IF AtobThrows(payload.signature)
     THEN /\ Settle(Rejected(JsError("The string to be decoded is not correctly encoded.")))
          /\ UNCHANGED sigBytes
     ELSE LET bytes == base64ToBytes(payload.signature)
          IN IF Len(bytes) # SignatureLength
             THEN /\ Settle(Rejected(fail(JsStr("Invalid signature length: "
                                  \o ToString(Len(bytes)) \o ", expected 65"))))
                  /\ UNCHANGED sigBytes
             ELSE /\ sigBytes' = bytes
                  /\ pc' = "flag"
                  /\ UNCHANGED outcome
  /\ UNCHANGED << otherVars, options, request, response, entry, payload, message, signatureData, messageHash,
                  testRecoveryId, publicKey, compressed, calls, returned,
                  cliVars, stderr >>

\* VerifyFlag without the assertion recoveryFlag <= 34
VerifyFlagLowerOnly ==
  /\ pc = "flag"
  /\ LET recoveryFlag == sigBytes[1]
     IN IF recoveryFlag < MinRecoveryFlag
        THEN /\ Settle(Rejected(fail(JsStr("Invalid recovery flag"))))
             /\ UNCHANGED signatureData
        ELSE /\ signatureData' = Slice(sigBytes, 1, Len(sigBytes))
             /\ pc' = "hash"
             /\ UNCHANGED outcome
  /\ UNCHANGED << otherVars, options, request, response, entry, payload, message, sigBytes, messageHash,
                  testRecoveryId, publicKey, compressed, calls, returned,
                  cliVars, stderr >>

\* VerifyFlag preceded by the address validation of getAddressHash160
VerifyFlagAddressFirst ==
  /\ pc = "flag"
  /\ LET recoveryFlag == sigBytes[1]
     IN IF recoveryFlag < MinRecoveryFlag \/ recoveryFlag > MaxRecoveryFlag
        THEN /\ Settle(Rejected(fail(JsStr("Invalid recovery flag"))))
             /\ UNCHANGED signatureData
        ELSE IF getAddressHash160Throws(payload.address)
        THEN /\ Settle(Rejected(fail(JsStr("Invalid Bitcoin address"))))
             /\ UNCHANGED signatureData
        ELSE /\ signatureData' = Slice(sigBytes, 1, Len(sigBytes))
             /\ pc' = "hash"
             /\ UNCHANGED outcome
  /\ UNCHANGED << otherVars, options, request, response, entry, payload, message, sigBytes, messageHash,
                  testRecoveryId, publicKey, compressed, calls, returned,
                  cliVars, stderr >>

\* the two assertions on sigBytes[0]; signatureData = sigBytes.slice(1)
VerifyFlag ==
  /\ pc = "flag"
  /\ LET recoveryFlag == sigBytes[1]
     IN IF recoveryFlag < MinRecoveryFlag \/ recoveryFlag > MaxRecoveryFlag
        THEN /\ Settle(Rejected(fail(JsStr("Invalid recovery flag"))))
             /\ UNCHANGED signatureData
        ELSE /\ signatureData' = Slice(sigBytes, 1, Len(sigBytes))
             /\ pc' = "hash"
             /\ UNCHANGED outcome
  /\ UNCHANGED << otherVars, options, request, response, entry, payload, message, sigBytes, messageHash,
                  testRecoveryId, publicKey, compressed, calls, returned,
                  cliVars, stderr >>

\* messageBytes = typeof message === 'string' ? encoder.encode(message) : message
MessageBytes(m) == IF m.isString THEN Utf8Encode(m.value) ELSE m.value

\* VerifyHash with the loop starting at the recovery id the flag names
VerifyHashFromFlag ==
  /\ pc = "hash"
  /\ messageHash' = createMessageHash(MessageBytes(message))
  /\ calls' = Append(calls, Called("createMessageHash", 0, FALSE))
  /\ testRecoveryId' = (sigBytes[1] - MinRecoveryFlag) % RecoveryIds
  /\ pc' = "recover"
  /\ UNCHANGED << otherVars, options, request, response, entry, payload, message, sigBytes, signatureData, publicKey,
                  compressed, outcome, returned, cliVars, stderr >>

\* const messageHash = await createMessageHash(messageBytes)
VerifyHash ==
  /\ pc = "hash"
  /\ messageHash' = createMessageHash(MessageBytes(message))
  /\ calls' = Append(calls, Called("createMessageHash", 0, FALSE))
  /\ testRecoveryId' = 0
  /\ pc' = "recover"
  /\ UNCHANGED << otherVars, options, request, response, entry, payload, message, sigBytes, signatureData, publicKey,
                  compressed, outcome, returned, cliVars, stderr >>

\* VerifyRecover with the inner loop over [false, true]
VerifyRecoverUncompressedFirst ==
  /\ pc = "recover"
  /\ testRecoveryId < RecoveryIds
  /\ LET key == recoverPublicKey(messageHash, signatureData, testRecoveryId)
     IN /\ publicKey' = key
        /\ calls' = Append(calls, Called("recoverPublicKey", testRecoveryId, FALSE))
        /\ IF key # null
           THEN /\ compressed' = FALSE
                /\ pc' = "address"
                /\ UNCHANGED testRecoveryId
           ELSE /\ testRecoveryId' = testRecoveryId + 1
                /\ pc' = "recover"
                /\ UNCHANGED compressed
  /\ UNCHANGED << otherVars, options, request, response, entry, payload, message, sigBytes, signatureData, messageHash,
                  outcome, returned, cliVars, stderr >>

\* for (testRecoveryId < 4): publicKey = recoverPublicKey(...); if (publicKey)
VerifyRecover ==
  /\ pc = "recover"
  /\ testRecoveryId < RecoveryIds
  /\ LET key == recoverPublicKey(messageHash, signatureData, testRecoveryId)
     IN /\ publicKey' = key
        /\ calls' = Append(calls, Called("recoverPublicKey", testRecoveryId, FALSE))
        /\ IF key # null
           THEN /\ compressed' = TRUE
                /\ pc' = "address"
                /\ UNCHANGED testRecoveryId
           ELSE /\ testRecoveryId' = testRecoveryId + 1
                /\ pc' = "recover"
                /\ UNCHANGED compressed
  /\ UNCHANGED << otherVars, options, request, response, entry, payload, message, sigBytes, signatureData, messageHash,
                  outcome, returned, cliVars, stderr >>

\* VerifyAddress trying the compressed format only
VerifyAddressCompressedOnly ==
  /\ pc = "address"
  /\ calls' = Append(calls, Called("publicKeyToAddress", testRecoveryId, compressed))
  /\ LET testAddress == publicKeyToAddress(publicKey, compressed)
     IN IF testAddress = payload.address
        THEN /\ Settle(Resolved(JsBool(TRUE)))
             /\ UNCHANGED << testRecoveryId, compressed >>
        ELSE /\ testRecoveryId' = testRecoveryId + 1
             /\ pc' = "recover"
             /\ UNCHANGED << compressed, outcome >>
  /\ UNCHANGED << otherVars, options, request, response, entry, payload, message, sigBytes, signatureData,
                  messageHash, publicKey, returned, cliVars, stderr >>

\* for (compressed of [true, false]): testAddress = await publicKeyToAddress(...)
\* if (testAddress === address) return true
VerifyAddress ==
  /\ pc = "address"
  /\ calls' = Append(calls, Called("publicKeyToAddress", testRecoveryId, compressed))
  /\ LET testAddress == publicKeyToAddress(publicKey, compressed)
     IN IF testAddress = payload.address
        THEN /\ Settle(Resolved(JsBool(TRUE)))
             /\ UNCHANGED << testRecoveryId, compressed >>
        ELSE IF compressed
        THEN /\ compressed' = FALSE
             /\ UNCHANGED << pc, testRecoveryId, outcome >>
        ELSE /\ testRecoveryId' = testRecoveryId + 1
             /\ pc' = "recover"
             /\ UNCHANGED << compressed, outcome >>
  /\ UNCHANGED << otherVars, options, request, response, entry, payload, message, sigBytes, signatureData, messageHash,
                  publicKey, returned, cliVars, stderr >>

\* fail('Unable to recover public key from signature')
VerifyFail ==
  /\ pc = "recover"
  /\ testRecoveryId >= RecoveryIds
  /\ Settle(Rejected(fail(JsStr("Unable to recover public key from signature"))))
  /\ UNCHANGED << otherVars, options, request, response, entry, payload, message, verifyVars, calls, returned,
                  cliVars, stderr >>

\* ------------------------------------------------------------------------
\* verifySafe (src/verify.ts 84-91)
\* ------------------------------------------------------------------------

\* return await verify(params)
VerifySafeReturn ==
  /\ pc = "settled"
  /\ entry = "verifySafe"
  /\ outcome.state = "resolved"
  /\ returned' = Resolved(outcome.value)
  /\ pc' = "done"
  /\ UNCHANGED << otherVars, options, request, response, entry, payload, message, verifyVars, calls, outcome,
                  cliVars, stderr >>

\* VerifySafeCatch letting the rejection through
VerifySafeRethrow ==
  /\ pc = "settled"
  /\ entry = "verifySafe"
  /\ outcome.state = "rejected"
  /\ returned' = Rejected(outcome.value)
  /\ pc' = "done"
  /\ UNCHANGED << otherVars, options, request, response, entry, payload, message, verifyVars, calls,
                  outcome, cliVars, stderr >>

\* catch (error) { if (log) console.error(error); return false }
\* (the parameter log is read here for the first time)
VerifySafeCatch ==
  /\ pc = "settled"
  /\ entry = "verifySafe"
  /\ outcome.state = "rejected"
  /\ \E log \in BOOLEAN : stderr' = IF log THEN stderr + 1 ELSE stderr
  /\ returned' = Resolved(JsBool(FALSE))
  /\ pc' = "done"
  /\ UNCHANGED << otherVars, options, request, response, entry, payload, message, verifyVars, calls, outcome, cliVars >>

\* ------------------------------------------------------------------------
\* The command lines (src/verify.ts 1085-1123 and 1206-1244)
\* ------------------------------------------------------------------------

\* error = e instanceof Error ? e.message : String(e)
ErrorText(e) == IF e.t = "error" THEN JsStr(e.s) ELSE JsStr(JsToString(e))

\* ExitCodeOf ignoring valid
ExitCodeSuccess(v) == 0

\* process.exit(valid ? 0 : 1)
ExitCodeOf(v) == IF Truthy(v) THEN 0 ELSE 1

InvalidSignature == fail(JsStr("Signature is invalid"))

\* Cli1CatchFinally without the assignment to error
Cli1CatchFinallyNoError(e, json) ==
  /\ valid' = JsBool(FALSE)
  /\ stderr' = IF json THEN stderr ELSE stderr + 1
  /\ stdout' = IF json THEN JsonObject(JsBool(FALSE), error) ELSE stdout
  /\ exitCode' = ExitCodeOf(JsBool(FALSE))
  /\ UNCHANGED error

\* bitcoin-verify, catch and finally: valid = false; error = ...;
\* if (!json) console.error(e); if (json) console.log({...}); process.exit
Cli1CatchFinally(e, json) ==
  /\ valid' = JsBool(FALSE)
  /\ error' = ErrorText(e)
  /\ stderr' = IF json THEN stderr ELSE stderr + 1
  /\ stdout' = IF json THEN JsonObject(JsBool(FALSE), ErrorText(e)) ELSE stdout
  /\ exitCode' = ExitCodeOf(JsBool(FALSE))

\* the try block once verify resolved with v: valid = v; assert(valid);
\* if (!json) console.log('Signature is valid'); then the result object
\* and process.exit
CliSuccess(v, json) ==
  /\ valid' = v
  /\ stdout' = IF json THEN JsonObject(v, error) ELSE SuccessLine
  /\ exitCode' = ExitCodeOf(v)
  /\ UNCHANGED << error, stderr >>

\* bitcoin-verify, verify resolved (--json is read here for the first time)
Cli1Try ==
  /\ pc = "settled"
  /\ entry = "cli1"
  /\ outcome.state = "resolved"
  /\ \E json \in BOOLEAN :
       IF Truthy(outcome.value)
       THEN CliSuccess(outcome.value, json)
       ELSE Cli1CatchFinally(InvalidSignature, json)
  /\ pc' = "exited"
  /\ UNCHANGED << otherVars, options, request, response, entry, payload, message, verifyVars, calls, outcome, returned >>

\* bitcoin-verify, verify rejected
Cli1Catch ==
  /\ pc = "settled"
  /\ entry = "cli1"
  /\ outcome.state = "rejected"
  /\ \E json \in BOOLEAN : Cli1CatchFinally(outcome.value, json)
  /\ pc' = "exited"
  /\ UNCHANGED << otherVars, options, request, response, entry, payload, message, verifyVars, calls, outcome, returned >>

\* verify-bitcoin-message: const { message: { bytes, utf8 } } = parsePayload(payload)
Cli2ParsePayload ==
  /\ pc = "parsePayload"
  /\ message' = [isString |-> FALSE, value |-> ParsedBytes(payload.message)]
  /\ pc' = "decode"
  /\ UNCHANGED << otherVars, options, request, response, entry, payload, verifyVars, calls, outcome, returned,
                  cliVars, stderr >>

\* verify-bitcoin-message after the try statement: console.error(e);
\* error = ...; then if (json) console.log(JSON.stringify({...})); process.exit
Cli2CatchExit(v, e, json) ==
  /\ valid' = v
  /\ error' = ErrorText(e)
  /\ stderr' = stderr + 1
  /\ stdout' = IF json THEN JsonObject(v, ErrorText(e)) ELSE stdout
  /\ exitCode' = ExitCodeOf(v)

\* verify-bitcoin-message, verify resolved
Cli2Try ==
  /\ pc = "settled"
  /\ entry = "cli2"
  /\ outcome.state = "resolved"
  /\ \E json \in BOOLEAN :
       IF Truthy(outcome.value)
       THEN CliSuccess(outcome.value, json)
       ELSE Cli2CatchExit(outcome.value, InvalidSignature, json)
  /\ pc' = "exited"
  /\ UNCHANGED << otherVars, options, request, response, entry, payload, message, verifyVars, calls, outcome, returned >>

\* verify-bitcoin-message, verify rejected: valid keeps its initial false
Cli2Catch ==
  /\ pc = "settled"
  /\ entry = "cli2"
  /\ outcome.state = "rejected"
  /\ \E json \in BOOLEAN : Cli2CatchExit(valid, outcome.value, json)
  /\ pc' = "exited"
  /\ UNCHANGED << otherVars, options, request, response, entry, payload, message, verifyVars, calls, outcome, returned >>

Next ==
  \/ VerifyDecode
  \/ VerifyFlag
  \/ VerifyHash
  \/ VerifyRecover
  \/ VerifyAddress
  \/ VerifyFail
  \/ VerifySafeReturn
  \/ VerifySafeCatch
  \/ Cli1Try
  \/ Cli1Catch
  \/ Cli2ParsePayload
  \/ Cli2Try
  \/ Cli2Catch

Spec == Init /\ [][Next]_vars

\* ------------------------------------------------------------------------
\* The JSON-RPC client (src/rpc.ts 9-36)
\* ------------------------------------------------------------------------

\* the callers of the client: verify itself and verifySafe
RpcEntries == {"rpcVerify", "rpcVerifySafe"}

\* the payloads posted: a message, a signature and either address of G
RpcPayloads ==
  {p \in Payloads :
     /\ p.message = <<97>>
     /\ p.address \in {publicKeyToAddress(G, TRUE), publicKeyToAddress(G, FALSE)}
     /\ p.signature = BytesToBase64(SignatureBytes(27, 1, 1))}

\* the values of the result and error members of a response object
\* (JsUndefined: the member is missing)
RpcResults ==
  {JsUndefined, JsNull, JsBool(TRUE), JsBool(FALSE), JsNum(0), JsStr("")}
RpcErrors == {JsUndefined, JsNull, JsObj("rpc error")}

\* response bodies: text that is not JSON, the JSON text null, and objects
NotJson == [kind |-> "text", result |-> JsUndefined, error |-> JsUndefined]
JsonNull == [kind |-> "null", result |-> JsUndefined, error |-> JsUndefined]
RpcObject(r, e) == [kind |-> "object", result |-> r, error |-> e]
RpcBodies ==
  {NotJson, JsonNull} \cup {RpcObject(r, e) : r \in RpcResults, e \in RpcErrors}

InitRpc ==
  /\ PureIdle
  /\ SwIdle
  /\ DemoIdle
  /\ options = NoOptions
  /\ entry \in RpcEntries
  /\ payload \in RpcPayloads
  /\ pc = "request"
  /\ Start

\* v === null || v === undefined
Nullish(v) == v.t \in {"undefined", "null"}

\* RpcReturn with || in place of ??
RpcReturnOr(result, err) ==
  IF Truthy(result) THEN Resolved(result) ELSE Rejected(fail(err))

\* return result ?? fail(error)
RpcReturn(result, err) ==
  IF Nullish(result) THEN Rejected(fail(err)) ELSE Resolved(result)

\* const body = JSON.stringify({...}); fetch(url, {body, method: "POST", ...})
RpcRequest ==
  /\ pc = "request"
  /\ request' = [method |-> "verifymessage",
                 params |-> << payload.address, payload.signature, payload.message >>]
  /\ pc' = "fetch"
  /\ UNCHANGED << otherVars, options, response, entry, payload, message, verifyVars, calls, outcome,
                  returned, cliVars, stderr >>

\* await fetch(...): rejects on a network error, else resolves with a response
RpcFetch ==
  /\ pc = "fetch"
  /\ \/ /\ Settle(Rejected(JsError("fetch failed")))
        /\ UNCHANGED response
     \/ /\ response' \in RpcBodies
        /\ pc' = "json"
        /\ UNCHANGED outcome
  /\ UNCHANGED << otherVars, options, request, entry, payload, message, verifyVars, calls,
                  returned, cliVars, stderr >>

\* const { result, error } = await response.json(); return result ?? fail(error)
RpcJson ==
  /\ pc = "json"
  /\ Settle(CASE response.kind = "text" ->
                   Rejected(JsError("Unexpected token in JSON"))
              [] response.kind = "null" ->
                   Rejected(JsError("Cannot destructure property 'result' of null"))
              [] OTHER -> RpcReturn(response.result, response.error))
  /\ UNCHANGED << otherVars, options, request, response, entry, payload, message, verifyVars, calls,
                  returned, cliVars, stderr >>

\* verifySafe: return await verify(params, connection)
RpcVerifySafeReturn ==
  /\ pc = "settled"
  /\ entry = "rpcVerifySafe"
  /\ outcome.state = "resolved"
  /\ returned' = Resolved(outcome.value)
  /\ pc' = "done"
  /\ UNCHANGED << otherVars, options, request, response, entry, payload, message, verifyVars, calls,
                  outcome, cliVars, stderr >>

\* verifySafe: catch (error) { return false }
RpcVerifySafeCatch ==
  /\ pc = "settled"
  /\ entry = "rpcVerifySafe"
  /\ outcome.state = "rejected"
  /\ returned' = Resolved(JsBool(FALSE))
  /\ pc' = "done"
  /\ UNCHANGED << otherVars, options, request, response, entry, payload, message, verifyVars, calls,
                  outcome, cliVars, stderr >>

NextRpc ==
  \/ RpcRequest
  \/ RpcFetch
  \/ RpcJson
  \/ RpcVerifySafeReturn
  \/ RpcVerifySafeCatch

SpecRpc == InitRpc /\ [][NextRpc]_vars

\* ------------------------------------------------------------------------
\* Properties of verify, verifySafe and the command lines (checked on Spec)
\* ------------------------------------------------------------------------

\* the signature decodes to 65 bytes whose first is a flag in 27..34
ShapeValidSignature ==
  /\ ~AtobThrows(payload.signature)
  /\ LET bytes == base64ToBytes(payload.signature)
     IN Len(bytes) = 65 /\ bytes[1] >= 27 /\ bytes[1] <= 34

\* the signature decodes, but to another length or with a flag out of range
ShapeInvalidSignature ==
  /\ ~AtobThrows(payload.signature)
  /\ LET bytes == base64ToBytes(payload.signature)
     IN Len(bytes) # 65 \/ bytes[1] < 27 \/ bytes[1] > 34

\* the key recovered from the payload for a recovery id
RecoveredKey(id) ==
  recoverPublicKey(createMessageHash(MessageBytes(message)),
                   Slice(base64ToBytes(payload.signature), 1, 65), id)

\* some recovery id in 0..3 yields a point one of whose two addresses is the
\* claimed address
SomeCombinationMatches ==
  LET hash == createMessageHash(MessageBytes(message))
      data == Slice(base64ToBytes(payload.signature), 1, 65)
  IN \E id \in 0..3 :
       LET key == recoverPublicKey(hash, data, id)
       IN /\ key # null
          /\ \E c \in BOOLEAN : publicKeyToAddress(key, c) = payload.address

\* verify has just settled: nothing it read has changed since
VerifySettled == pc = "settled"

ResolvedTrue == Resolved(JsBool(TRUE))

\* C1: once verify has settled on a payload whose signature decodes to 65
\* bytes with a flag in 27..34, it resolved true if and only if some recovery
\* id 0..3 gives a point whose compressed or uncompressed address equals the
\* claimed address, and it rejected otherwise; verify never resolves to
\* anything but true.
C1_VerifyTrueIffCombinationMatches ==
  /\ outcome.state = "resolved" => outcome = ResolvedTrue
  /\ VerifySettled =>
       IF ShapeValidSignature
       THEN IF SomeCombinationMatches
            THEN outcome = ResolvedTrue
            ELSE outcome.state = "rejected"
       ELSE outcome.state = "rejected"

\* verify resolved true on the uncompressed address of a key recovered with
\* an id other than 0
C1_Witness ==
  /\ outcome = ResolvedTrue
  /\ testRecoveryId > 0
  /\ ~compressed
  /\ publicKeyToAddress(publicKey, FALSE) = payload.address

\* C2: verifySafe never rejects; it resolves to true exactly when verify
\* resolved true and to false whenever verify rejected, whether or not the
\* rejection was logged.
C2_VerifySafeNeverRejects ==
  /\ returned.state # "rejected"
  /\ (entry = "verifySafe" /\ pc = "done") =>
       /\ returned.state = "resolved"
       /\ returned = ResolvedTrue <=> outcome = ResolvedTrue
       /\ outcome.state = "rejected" => returned = Resolved(JsBool(FALSE))
       /\ stderr \in {0, 1}

\* verifySafe resolved false, with the error logged, on a signature that is
\* not Base64
C2_Witness ==
  /\ entry = "verifySafe"
  /\ pc = "done"
  /\ AtobThrows(payload.signature)
  /\ outcome.state = "rejected"
  /\ returned = Resolved(JsBool(FALSE))
  /\ stderr = 1

\* C3: when a command line has exited, its exit code is 0 if verify resolved
\* true and 1 in every other case, with and without --json.
C3_ExitCodeZeroIffVerified ==
  pc = "exited" =>
    /\ exitCode \in {0, 1}
    /\ exitCode = 0 <=> outcome = ResolvedTrue

\* verify-bitcoin-message --json exited with 1 after verify rejected
C3_Witness ==
  /\ pc = "exited"
  /\ entry = "cli2"
  /\ stdout.kind = "json"
  /\ outcome.state = "rejected"
  /\ exitCode = 1

\* C4: on a signature that decodes to a length other than 65 or whose first
\* byte is outside 27..34, no message hash, key recovery or address
\* derivation is ever executed, and verify settles by rejecting.
C4_ShapeInvalidFailsBeforeCrypto ==
  /\ calls # <<>> => ~ShapeInvalidSignature
  /\ (VerifySettled /\ ShapeInvalidSignature) =>
       /\ outcome.state = "rejected"
       /\ calls = <<>>

\* verify rejected a 65-byte signature whose flag is 35
C4_Witness ==
  /\ VerifySettled
  /\ ~AtobThrows(payload.signature)
  /\ Len(base64ToBytes(payload.signature)) = 65
  /\ base64ToBytes(payload.signature)[1] = 35
  /\ outcome = Rejected(JsError("Invalid recovery flag"))
  /\ calls = <<>>

\* every recovery id 0..3 was handed to recoverPublicKey
AllIdsTried ==
  \A id \in 0..3 : \E i \in 1..Len(calls) : calls[i] = Called("recoverPublicKey", id, FALSE)

\* C5 as stated: a payload whose address is malformed (a character outside
\* Base58, a decoded length other than the address length, a nonzero
\* version) is rejected before any message hash, key recovery or address
\* derivation.
C5_MalformedAddressRejectedEagerly ==
  (VerifySettled /\ getAddressHash160Throws(payload.address)) =>
    /\ outcome.state = "rejected"
    /\ calls = <<>>

\* C5, amended: a payload whose address is malformed is always rejected, but
\* verify never inspects the address: with a signature of valid shape it
\* hashes the message, tries all four recovery ids and rejects with 'Unable
\* to recover public key from signature'; only a signature of invalid shape
\* is rejected before cryptographic work.
C5_MalformedAddressRejectedByScan ==
  (VerifySettled /\ getAddressHash160Throws(payload.address)) =>
    /\ outcome.state = "rejected"
    /\ IF ShapeValidSignature
       THEN /\ outcome = Rejected(JsError("Unable to recover public key from signature"))
            /\ calls # <<>>
            /\ calls[1] = Called("createMessageHash", 0, FALSE)
            /\ AllIdsTried
       ELSE calls = <<>>

\* an address with a character outside Base58 was rejected after addresses
\* had been derived from a recovered key
C5_Witness ==
  /\ VerifySettled
  /\ Base58DecodeThrows(payload.address)
  /\ ShapeValidSignature
  /\ \E i \in 1..Len(calls) : calls[i].op = "publicKeyToAddress"
  /\ outcome.state = "rejected"

\* the address decodes with a nonzero version byte
NonzeroVersion(address) ==
  /\ ~Base58DecodeThrows(address)
  /\ Len(base58Decode(address)) >= 1
  /\ base58Decode(address)[1] # 0

\* C6: verify never resolves true for an address whose decoded version byte
\* is nonzero; every address verify derives from a recovered key decodes to
\* an address-length value with first byte 0.
C6_NonzeroVersionNeverMatches ==
  /\ NonzeroVersion(payload.address) => outcome # ResolvedTrue
  /\ pc = "address" =>
       LET decoded == base58Decode(publicKeyToAddress(publicKey, compressed))
       IN Len(decoded) = AddressLength /\ decoded[1] = 0

\* verify rejected an address that differs from an address of a recovered
\* key in its version byte only
C6_Witness ==
  /\ VerifySettled
  /\ NonzeroVersion(payload.address)
  /\ outcome.state = "rejected"
  /\ ShapeValidSignature
  /\ \E id \in 0..3 : \E c \in BOOLEAN :
       /\ RecoveredKey(id) # null
       /\ Slice(base58Decode(payload.address), 1, 2)
            = Slice(base58Decode(publicKeyToAddress(RecoveredKey(id), c)), 1, 2)

\* C8: the object printed under --json has an undefined error exactly when
\* its valid is true, and a non-empty string as error when valid is false.
C8_JsonErrorIffInvalid ==
  stdout.kind = "json" =>
    /\ stdout.valid.t = "boolean"
    /\ stdout.error = JsUndefined <=> stdout.valid = JsBool(TRUE)
    /\ stdout.valid = JsBool(FALSE) =>
         /\ stdout.error.t = "string"
         /\ stdout.error.s # ""
    /\ stdout.valid = JsBool(TRUE) <=> outcome = ResolvedTrue

\* bitcoin-verify --json printed valid false with verify's error message
C8_Witness ==
  /\ pc = "exited"
  /\ entry = "cli1"
  /\ stdout = JsonObject(JsBool(FALSE), JsStr("Unable to recover public key from signature"))

\* ------------------------------------------------------------------------
\* Properties of the JSON-RPC client (checked on SpecRpc)
\* ------------------------------------------------------------------------

C10_RpcVerifySafeFalseOnFailure ==
  /\ returned.state # "rejected"
  /\ (entry = "rpcVerifySafe" /\ pc = "done") =>
       /\ returned.state = "resolved"
       /\ (outcome.state = "rejected" \/ ~Truthy(outcome.value))
            => returned = Resolved(JsBool(FALSE))

\* ------------------------------------------------------------------------
\* parsePayload and encodeVarint called on their own
\* (src/verify.ts 97-134 and 483-495)
\* ------------------------------------------------------------------------

\* '0', 'x', '6', '1', 'A', ' ', 'g' and U+00E9
TextAlphabet == {48, 120, 54, 49, 65, 32, 103, 233}

Texts == StringsUpTo(TextAlphabet, MaxTextLen)

\* the halves of the numbers handed to encodeVarint: the values around 0xfd,
\* 0xffff and 0xffffffff
VarintLows == {0, 1, 252, 253, 254, 255, 256, 4660, 65534, 65535}
VarintHighs == {0, 1, 255, 256, 4660, 65534, 65535, 65536, 65537}

\* verify, its callers and the JSON-RPC client are not running
VerifyIdle ==
  /\ entry = "none"
  /\ payload = [address |-> <<>>, message |-> <<>>, signature |-> <<>>]
  /\ pc = "idle"
  /\ options = NoOptions
  /\ Start

InitPure ==
  /\ VerifyIdle
  /\ SwIdle
  /\ DemoIdle
  /\ \/ /\ parsed \in [message : Texts, called : {FALSE}, result : {NoParsedMessage}]
        /\ varint = [n |-> ToUint(0), called |-> FALSE, result |-> NoVarint]
     \/ /\ parsed = [message |-> <<>>, called |-> FALSE, result |-> NoParsedMessage]
        /\ varint \in [n : {Uint(hi, lo) : hi \in VarintHighs, lo \in VarintLows},
                       called : {FALSE}, result : {NoVarint}]

\* parsePayload({ address, message, signature }) with a string message
ParsePayloadCall ==
  /\ ~parsed.called
  /\ parsed' = [parsed EXCEPT !.called = TRUE, !.result = parsePayload(parsed.message)]
  /\ UNCHANGED << coreVars, varint, swVars, demoVars >>

\* encodeVarint(n)
EncodeVarintCall ==
  /\ ~varint.called
  /\ varint' = [varint EXCEPT !.called = TRUE, !.result = encodeVarint(varint.n)]
  /\ UNCHANGED << coreVars, parsed, swVars, demoVars >>

NextPure ==
  \/ ParsePayloadCall
  \/ EncodeVarintCall

SpecPure == InitPure /\ [][NextPure]_vars

\* the characters after the 0x prefix that are not white space
DigitsAfterPrefix(str) ==
  LET rest == SubSeq(str, 3, Len(str))
      kept == {i \in 1..Len(rest) : rest[i] \notin {9, 10, 13, 32}}
      Nth(k) == CHOOSE i \in kept : Cardinality({j \in kept : j <= i}) = k
  IN [k \in 1..Cardinality(kept) |-> rest[Nth(k)]]

\* the string starts with 0x, has even length and only hex digits and white
\* space (at least one character) after the prefix
HexLooking(str) ==
  /\ Len(str) >= 3
  /\ Len(str) % 2 = 0
  /\ SubSeq(str, 1, 2) = <<48, 120>>
  /\ \A i \in 3..Len(str) :
       str[i] \in (48..57) \cup (97..102) \cup (65..70) \cup {9, 10, 13, 32}

\* bytes pairs up the digits, most significant first
PairDecodes(bytes, digits) ==
  /\ Len(bytes) = Len(digits) \div 2
  /\ \A i \in 1..Len(bytes) :
       bytes[i] = 16 * HexValue(digits[2 * i - 1]) + HexValue(digits[2 * i])

\* C18 as stated: for a string that looks like hex, bytes is the pair
\* decoding of the hex digits after the prefix and utf8 is the normalized hex
\* text; for any other string bytes is the UTF-8 encoding of the string.
C18_ParsePayloadHexOrUtf8 ==
  parsed.called =>
    IF HexLooking(parsed.message)
    THEN /\ PairDecodes(parsed.result.bytes, DigitsAfterPrefix(parsed.message))
         /\ parsed.result.utf8 = DigitsAfterPrefix(parsed.message)
    ELSE parsed.result.bytes = Utf8Encode(parsed.message)

\* C18, amended: utf8 is always the string as given and it is the field hex
\* that holds the normalized hex text; for a string that looks like hex with
\* at least one digit after the prefix bytes is the pair decoding of the
\* digits (a last digit without partner is dropped); for a string with only
\* white space after the prefix, and for any string that does not look like
\* hex, bytes is the UTF-8 encoding of the string.
C18_ParsePayloadKeepsText ==
  parsed.called =>
    /\ parsed.result.utf8 = parsed.message
    /\ IF HexLooking(parsed.message)
       THEN /\ parsed.result.hex = HexText(DigitsAfterPrefix(parsed.message))
            /\ IF DigitsAfterPrefix(parsed.message) # <<>>
               THEN PairDecodes(parsed.result.bytes, DigitsAfterPrefix(parsed.message))
               ELSE parsed.result.bytes = Utf8Encode(parsed.message)
       ELSE /\ parsed.result.hex = NoHex
            /\ parsed.result.bytes = Utf8Encode(parsed.message)

\* parsePayload decoded "0x6A" to the byte 0x6a and kept the text
C18_Witness ==
  /\ parsed.called
  /\ parsed.message = <<48, 120, 54, 65>>
  /\ parsed.result = [bytes |-> <<106>>, utf8 |-> <<48, 120, 54, 65>>,
                      hex |-> HexText(<<54, 65>>)]

CandidateAddress(i) ==
  publicKeyToAddress(RecoveredKey(calls[i].id), calls[i].compressed)

\* C20: verify hashes the message, then examines the candidates in the order
\* of the recovery ids 0, 1, 2, 3: an id is recovered only after the id before
\* it is finished, the compressed address of a recovered key is derived right
\* after the recovery and the uncompressed one right after the compressed
\* one; when verify resolves true the last call is the derivation of the
\* matching address, none of the candidates before it matched, and no further
\* candidate is derived.
C20_CandidatesInOrderFirstMatchWins ==
  /\ \A i \in 1..Len(calls) :
       LET call == calls[i]
       IN IF call.op = "createMessageHash" THEN i = 1
          ELSE /\ i > 1
               /\ IF call.op = "recoverPublicKey"
                  THEN IF call.id = 0
                       THEN calls[i - 1].op = "createMessageHash"
                       ELSE calls[i - 1] \in
                              { Called("recoverPublicKey", call.id - 1, FALSE),
                                Called("publicKeyToAddress", call.id - 1, FALSE) }
                  ELSE IF call.compressed
                  THEN calls[i - 1] = Called("recoverPublicKey", call.id, FALSE)
                  ELSE calls[i - 1] = Called("publicKeyToAddress", call.id, TRUE)
  /\ outcome = ResolvedTrue =>
       /\ calls # <<>>
       /\ calls[Len(calls)].op = "publicKeyToAddress"
       /\ CandidateAddress(Len(calls)) = payload.address
       /\ \A i \in 1..(Len(calls) - 1) :
            calls[i].op = "publicKeyToAddress" => CandidateAddress(i) # payload.address

\* verify resolved true on an uncompressed address after the compressed
\* address of the same key did not match
C20_Witness ==
  /\ outcome = ResolvedTrue
  /\ Len(calls) >= 4
  /\ ~calls[Len(calls)].compressed
  /\ calls[Len(calls) - 1].op = "publicKeyToAddress"
  /\ calls[Len(calls) - 1].compressed

\* ------------------------------------------------------------------------
\* The service worker (src/sw.ts)
\* ------------------------------------------------------------------------

CACHE_VERSION == "v0"
CACHE_NAME == "bitcoin-message-verifier-" \o CACHE_VERSION
STATIC_CACHE_NAME == "bitcoin-message-verifier-static-" \o CACHE_VERSION

\* A URL is its origin followed by its pathname, both sequences of pieces of
\* text; the pieces are cut so that every text the worker looks for inside a
\* pathname lies within one piece.

\* self.location: where the worker script is served from
SelfOrigin == << "https://", "mothepro.github.io" >>
SelfPathname == << "/verify-bitcoin-message", "/sw.js" >>

\* str.replace(piece, ''): without the first occurrence of the piece
ReplaceFirst(str, piece) ==
  IF \E i \in 1..Len(str) : str[i] = piece
  THEN LET first == CHOOSE i \in 1..Len(str) :
                      str[i] = piece /\ \A j \in 1..(i - 1) : str[j] # piece
       IN SubSeq(str, 1, first - 1) \o SubSeq(str, first + 1, Len(str))
  ELSE str

BASE_PATH == ReplaceFirst(SelfPathname, "/sw.js")

STATIC_FILES ==
  << BASE_PATH \o << "/" >>,
     BASE_PATH \o << "/index", ".html" >>,
     BASE_PATH \o << "/demo", ".js" >>,
     BASE_PATH \o << "/verify", ".js" >>,
     BASE_PATH \o << "/css", "/pico", ".min", ".css" >>,
     BASE_PATH \o << "/manifest", ".json" >>,
     BASE_PATH \o << "/favicon", ".svg" >> >>

\* handleBackgroundSync: criticalFiles
CriticalFiles ==
  << BASE_PATH \o << "/payloads", ".json" >>,
     BASE_PATH \o << "/demo", ".js" >>,
     BASE_PATH \o << "/verify", ".js" >> >>

\* the piece contains the text
PieceIncludes(piece, text) ==
  \/ piece = text
  \/ piece = ".json" /\ text = ".js"

\* url.pathname.includes(text)
Includes(pathname, text) ==
  \E i \in 1..Len(pathname) : PieceIncludes(pathname[i], text)

isCacheableResource(pathname) ==
  \/ Includes(pathname, ".js")
  \/ Includes(pathname, ".css")
  \/ Includes(pathname, ".json")
  \/ Includes(pathname, ".html")
  \/ Includes(pathname, ".svg")
  \/ pathname = BASE_PATH \o << "/" >>
  \/ pathname = BASE_PATH

\* getCurrentCacheNames with the dynamic cache forgotten
getCurrentCacheNamesStaticOnly == { STATIC_CACHE_NAME }

getCurrentCacheNames == { STATIC_CACHE_NAME, CACHE_NAME }

\* request.url
RequestUrl(req) == req.origin \o req.pathname

\* a URL given relative to the worker's location
Resolve(pathname) == SelfOrigin \o pathname

\* str.startsWith(prefix)
StartsWith(str, prefix) ==
  /\ Len(str) >= Len(prefix)
  /\ SubSeq(str, 1, Len(prefix)) = prefix

ElementsOf(seq) == { seq[i] : i \in 1..Len(seq) }

\* caches.open(name): the cache is created when it does not exist
CachesOpen(storage, name) ==
  [n \in DOMAIN storage \cup {name} |-> IF n \in DOMAIN storage THEN storage[n] ELSE {}]

\* cache.addAll / cache.put into an open cache: entries of the same URL are
\* overwritten
CachePut(storage, name, urls) == [storage EXCEPT ![name] = @ \cup urls]

\* caches.delete(name)
CachesDelete(storage, name) == [n \in DOMAIN storage \ {name} |-> storage[n]]

\* caches.match looking into the static cache only
CachesMatchStaticOnly(storage, url) ==
  STATIC_CACHE_NAME \in DOMAIN storage /\ url \in storage[STATIC_CACHE_NAME]

\* caches.match(request): some cache holds a response for the URL
CachesMatch(storage, url) == \E n \in DOMAIN storage : url \in storage[n]

\* caches other software of the origin, or an earlier version, left behind
StaleCacheNames == { "bitcoin-message-verifier-static-beta", "workbox-precache" }

InitialCaches ==
  { [n \in names |-> { Resolve(<< "/" >>) }] : names \in SUBSET StaleCacheNames }

\* the origins requests go to: the worker's own, one whose text starts with
\* the text of the worker's own, and an unrelated one
LookalikeOrigin == SelfOrigin \o << ".evil.example" >>
OtherOrigin == << "https://", "cdn.example" >>

\* the text of the first shared file
ShareTexts ==
  { "hello", "null", "123", "{message}", "{address,message,signature}" }

\* JSON.parse(text): throws for "hello"; the objects carry the fields their
\* text names, with the values "A", "M" and "S"
JsonValue(kind, a, m, s) ==
  [throws |-> FALSE, kind |-> kind, address |-> a, message |-> m, signature |-> s]
JsonParse(text) ==
  CASE text = "null" -> JsonValue("null", JsUndefined, JsUndefined, JsUndefined)
    [] text = "123" -> JsonValue("number", JsUndefined, JsUndefined, JsUndefined)
    [] text = "{message}" -> JsonValue("object", JsUndefined, JsStr("M"), JsUndefined)
    [] text = "{address,message,signature}" ->
         JsonValue("object", JsStr("A"), JsStr("M"), JsStr("S"))
    [] OTHER -> [throws |-> TRUE, kind |-> "", address |-> JsUndefined,
                 message |-> JsUndefined, signature |-> JsUndefined]

GetRequest(origin, pathname, mode) ==
  [origin |-> origin, pathname |-> pathname, method |-> "GET", mode |-> mode,
   multipart |-> FALSE, files |-> <<>>]

PostRequest(origin, pathname, multipart, files) ==
  [origin |-> origin, pathname |-> pathname, method |-> "POST", mode |-> "navigate",
   multipart |-> multipart, files |-> files]

\* the requests of the pages the worker controls
SwRequests ==
  { GetRequest(SelfOrigin, BASE_PATH \o << "/" >>, "navigate"),
    GetRequest(SelfOrigin, BASE_PATH \o << "/index", ".html" >>, "navigate"),
    GetRequest(SelfOrigin, BASE_PATH \o << "/payloads", ".json" >>, "no-cors"),
    GetRequest(SelfOrigin, BASE_PATH \o << "/about" >>, "navigate"),
    GetRequest(SelfOrigin, BASE_PATH \o << "/icon", ".png" >>, "no-cors"),
    GetRequest(LookalikeOrigin, << "/collect" >>, "no-cors"),
    GetRequest(OtherOrigin, << "/lib", ".js" >>, "no-cors") }
  \cup { PostRequest(SelfOrigin, BASE_PATH, TRUE, files) :
           files \in { <<>> } \cup { << text >> : text \in ShareTexts }
                     \cup { << "123", "{address,message,signature}" >> } }
  \cup { PostRequest(SelfOrigin, BASE_PATH, FALSE, <<>>),
         PostRequest(SelfOrigin, BASE_PATH \o << "/api" >>, FALSE, <<>>),
         PostRequest(OtherOrigin, << "/" >>, FALSE, <<>>) }

\* event.data of a message event: nothing, or an object with its type
SwMessages ==
  { [present |-> FALSE, type |-> JsUndefined],
    [present |-> TRUE, type |-> JsUndefined],
    [present |-> TRUE, type |-> JsStr("SKIP_WAITING")],
    [present |-> TRUE, type |-> JsStr("TRACK_USAGE_TIME")],
    [present |-> TRUE, type |-> JsStr("PING")] }

SyncTags == { "background-sync", "periodic-update" }

InitSw ==
  /\ VerifyIdle
  /\ PureIdle
  /\ DemoIdle
  /\ caches \in InitialCaches
  /\ worker = NoWorker
  /\ activation = NoActivation
  /\ fetchEvent = NoFetchEvent
  /\ pendingPuts = {}
  /\ messageEvent = NoMessageEvent

\* no fetch event is being handled and no cacheResource call is running
Quiescent == fetchEvent.pc \in { "idle", "done" } /\ pendingPuts = {}

\* navigator.serviceWorker.register: the first worker, or a changed script
\* replacing the worker once the events of the old one are finished
Register ==
  /\ worker.state \in { "none", "activated", "redundant" }
  /\ worker.generation < MaxGenerations
  /\ Quiescent
  /\ worker' = [state |-> "parsed", skipWaiting |-> FALSE, claimed |-> FALSE,
                generation |-> worker.generation + 1]
  /\ activation' = NoActivation
  /\ fetchEvent' = NoFetchEvent
  /\ UNCHANGED << coreVars, pureVars, demoVars, caches, pendingPuts, messageEvent >>

\* handleInstall: const cache = await caches.open(STATIC_CACHE_NAME)
InstallOpen ==
  /\ worker.state = "parsed"
  /\ caches' = CachesOpen(caches, STATIC_CACHE_NAME)
  /\ worker' = [worker EXCEPT !.state = "installing"]
  /\ UNCHANGED << coreVars, pureVars, demoVars, activation, fetchEvent, pendingPuts, messageEvent >>

\* InstallAddAll caching the first file of the list only
InstallAddAllFirstOnly ==
  /\ worker.state = "installing"
  /\ \E ok \in BOOLEAN :
       IF ok
       THEN /\ caches' = CachePut(caches, STATIC_CACHE_NAME, { Resolve(STATIC_FILES[1]) })
            /\ worker' = [worker EXCEPT !.state = "installed", !.skipWaiting = TRUE]
       ELSE /\ worker' = [worker EXCEPT !.state = "redundant"]
            /\ UNCHANGED caches
  /\ UNCHANGED << coreVars, pureVars, demoVars, activation, fetchEvent, pendingPuts, messageEvent >>

\* InstallAddAll with skipWaiting called before addAll and the files stored
\* one by one
InstallAddAllOneByOne ==
  /\ worker.state = "installing"
  /\ \E ok \in BOOLEAN :
       IF ok
       THEN /\ caches' = CachePut(caches, STATIC_CACHE_NAME,
                                  { Resolve(file) : file \in ElementsOf(STATIC_FILES) })
            /\ worker' = [worker EXCEPT !.state = "installed", !.skipWaiting = TRUE]
       ELSE /\ caches' = CachePut(caches, STATIC_CACHE_NAME, { Resolve(STATIC_FILES[1]) })
            /\ worker' = [worker EXCEPT !.state = "redundant", !.skipWaiting = TRUE]
  /\ UNCHANGED << coreVars, pureVars, demoVars, activation, fetchEvent, pendingPuts, messageEvent >>

\* handleInstall: await cache.addAll(STATIC_FILES); await self.skipWaiting();
\* addAll stores every file or, when one request fails, none, and the error is
\* thrown again
InstallAddAll ==
  /\ worker.state = "installing"
  /\ \E ok \in BOOLEAN :
       IF ok
       THEN /\ caches' = CachePut(caches, STATIC_CACHE_NAME,
                                  { Resolve(file) : file \in ElementsOf(STATIC_FILES) })
            /\ worker' = [worker EXCEPT !.state = "installed", !.skipWaiting = TRUE]
       ELSE /\ worker' = [worker EXCEPT !.state = "redundant"]
            /\ UNCHANGED caches
  /\ UNCHANGED << coreVars, pureVars, demoVars, activation, fetchEvent, pendingPuts, messageEvent >>

\* handleActivate: cacheNames = await caches.keys(); the deletion of every
\* name that is not current is started
ActivateKeys ==
  /\ worker.state = "installed"
  /\ worker.skipWaiting
  /\ activation' = [before |-> caches,
                    pending |-> { name \in DOMAIN caches : name \notin getCurrentCacheNames }]
  /\ worker' = [worker EXCEPT !.state = "activating"]
  /\ UNCHANGED << coreVars, pureVars, demoVars, caches, fetchEvent, pendingPuts, messageEvent >>

\* handleActivate: one caches.delete(cacheName) finishes; they run
\* concurrently and finish in any order
ActivateDelete ==
  /\ worker.state = "activating"
  /\ \E name \in activation.pending :
       /\ caches' = CachesDelete(caches, name)
       /\ activation' = [activation EXCEPT !.pending = @ \ {name}]
  /\ UNCHANGED << coreVars, pureVars, demoVars, worker, fetchEvent, pendingPuts, messageEvent >>

\* handleActivate: await Promise.all(deletePromises); await self.clients.claim()
ActivateClaim ==
  /\ worker.state = "activating"
  /\ activation.pending = {}
  /\ worker' = [worker EXCEPT !.state = "activated", !.claimed = TRUE]
  /\ UNCHANGED << coreVars, pureVars, demoVars, caches, activation, fetchEvent, pendingPuts,
                  messageEvent >>

\* the record of a fetch event is dropped once the event is finished and
\* another event is dispatched
FetchInProgress == IF fetchEvent.pc = "done" THEN NoFetchEvent ELSE fetchEvent

\* handleBackgroundSync(tag): the three files are fetched again and stored in
\* the static cache; nothing is stored when a request fails
HandleBackgroundSync ==
  /\ worker.state = "activated"
  /\ \E tag \in SyncTags, ok \in BOOLEAN :
       IF tag # "background-sync"
       THEN UNCHANGED caches
       ELSE IF ok
       THEN caches' = CachePut(CachesOpen(caches, STATIC_CACHE_NAME), STATIC_CACHE_NAME,
                               { Resolve(file) : file \in ElementsOf(CriticalFiles) })
       ELSE caches' = CachesOpen(caches, STATIC_CACHE_NAME)
  /\ fetchEvent' = FetchInProgress
  /\ messageEvent' = NoMessageEvent
  /\ UNCHANGED << coreVars, pureVars, demoVars, worker, activation, pendingPuts >>

\* Response.redirect of the root, with the query parameters in order
Redirect(params) ==
  [kind |-> "redirect", url |-> Resolve(BASE_PATH \o << "/" >>), params |-> params]

\* a response taken from a cache, or received from the network, for the URL
CachedResponse(url) == [kind |-> "cache", url |-> url, params |-> <<>>]
NetworkResponse(url) == [kind |-> "network", url |-> url, params |-> <<>>]
\* the promise given to respondWith rejected
NetworkError == [kind |-> "error", url |-> <<>>, params |-> <<>>]

\* handleSharedFiles(request)
handleSharedFiles(req) ==
  IF ~req.multipart THEN Redirect(<<>>)             \* formData() throws
  ELSE IF Len(req.files) = 0 THEN Redirect(<<>>)
  ELSE LET text == req.files[1]
           data == JsonParse(text)
       IN IF data.throws \/ data.kind = "null"      \* JSON.parse or data.address throws
          THEN Redirect(<< << "message", text >> >>)
          ELSE IF Truthy(data.address) /\ Truthy(data.message) /\ Truthy(data.signature)
          THEN Redirect(<< << "address", data.address.s >>,
                           << "message", data.message.s >>,
                           << "signature", data.signature.s >> >>)
          ELSE Redirect(<<>>)

\* handleFetch(event): the synchronous part, and handleSharedFiles, which
\* reads nothing but the request
HandleFetch ==
  /\ worker.state = "activated"
  /\ fetchEvent.pc \in { "idle", "done" }
  /\ \E req \in SwRequests :
       fetchEvent' =
         IF req.pathname = BASE_PATH /\ req.method = "POST"
         THEN [request |-> req, handledBy |-> "handleSharedFiles", pc |-> "done",
               seen |-> NoCaches, fetches |-> 0, response |-> handleSharedFiles(req)]
         ELSE IF req.method # "GET"
         THEN [request |-> req, handledBy |-> "browser", pc |-> "done",
               seen |-> NoCaches, fetches |-> 0, response |-> NoSwResponse]
         ELSE IF ~StartsWith(RequestUrl(req), SelfOrigin)
         THEN [request |-> req, handledBy |-> "browser", pc |-> "done",
               seen |-> NoCaches, fetches |-> 0, response |-> NoSwResponse]
         ELSE [request |-> req, handledBy |-> "handleFetchAsync", pc |-> "match",
               seen |-> NoCaches, fetches |-> 0, response |-> NoSwResponse]
  /\ messageEvent' = NoMessageEvent
  /\ UNCHANGED << coreVars, pureVars, demoVars, caches, worker, activation, pendingPuts >>

\* handleFetchAsync: cachedResponse = await caches.match(request)
FetchMatch ==
  /\ fetchEvent.pc = "match"
  /\ LET url == RequestUrl(fetchEvent.request)
     IN fetchEvent' =
          IF CachesMatch(caches, url)
          THEN [fetchEvent EXCEPT !.seen = caches, !.pc = "done",
                                  !.response = CachedResponse(url)]
          ELSE [fetchEvent EXCEPT !.seen = caches, !.pc = "network"]
  /\ UNCHANGED << coreVars, pureVars, demoVars, caches, worker, activation, pendingPuts, messageEvent >>

\* what fetch(request) settles with: a 200 response of type basic, another
\* response, or a rejection
FetchResults == { "ok", "other", "failed" }

\* FetchNetwork with the write into the dynamic cache awaited before the
\* response is returned
FetchNetworkAwaitsPut ==
  /\ fetchEvent.pc = "network"
  /\ LET req == fetchEvent.request
         url == RequestUrl(req)
     IN \E result \in FetchResults :
          CASE result = "ok" ->
                 /\ UNCHANGED pendingPuts
                 /\ \E ok \in BOOLEAN :
                      IF isCacheableResource(req.pathname) /\ ok
                      THEN /\ caches' = CachePut(CachesOpen(caches, CACHE_NAME), CACHE_NAME, { url })
                           /\ fetchEvent' = [fetchEvent EXCEPT !.fetches = @ + 1, !.pc = "done",
                                                               !.response = NetworkResponse(url)]
                      ELSE /\ UNCHANGED caches
                           /\ fetchEvent' = [fetchEvent EXCEPT !.fetches = @ + 1, !.pc = "done",
                                                               !.response = NetworkResponse(url)]
            [] result = "other" ->
                 /\ fetchEvent' = [fetchEvent EXCEPT !.fetches = @ + 1, !.pc = "done",
                                                     !.response = NetworkResponse(url)]
                 /\ UNCHANGED << pendingPuts, caches >>
            [] result = "failed" ->
                 /\ fetchEvent' =
                      IF req.mode = "navigate"
                      THEN [fetchEvent EXCEPT !.fetches = @ + 1, !.pc = "fallback"]
                      ELSE [fetchEvent EXCEPT !.fetches = @ + 1, !.pc = "done",
                                              !.response = NetworkError]
                 /\ UNCHANGED << pendingPuts, caches >>
  /\ UNCHANGED << coreVars, pureVars, demoVars, worker, activation, messageEvent >>

\* handleFetchAsync: response = await fetch(request), and what follows it up
\* to the return or the catch
FetchNetwork ==
  /\ fetchEvent.pc = "network"
  /\ LET req == fetchEvent.request
         url == RequestUrl(req)
     IN \E result \in FetchResults :
          CASE result = "ok" ->
                 /\ fetchEvent' = [fetchEvent EXCEPT !.fetches = @ + 1, !.pc = "done",
                                                     !.response = NetworkResponse(url)]
                 /\ pendingPuts' = IF isCacheableResource(req.pathname)
                                   THEN pendingPuts \cup { url }
                                   ELSE pendingPuts
            [] result = "other" ->
                 /\ fetchEvent' = [fetchEvent EXCEPT !.fetches = @ + 1, !.pc = "done",
                                                     !.response = NetworkResponse(url)]
                 /\ UNCHANGED pendingPuts
            [] result = "failed" ->
                 /\ fetchEvent' =
                      IF req.mode = "navigate"
                      THEN [fetchEvent EXCEPT !.fetches = @ + 1, !.pc = "fallback"]
                      ELSE [fetchEvent EXCEPT !.fetches = @ + 1, !.pc = "done",
                                              !.response = NetworkError]
                 /\ UNCHANGED pendingPuts
  /\ UNCHANGED << coreVars, pureVars, demoVars, caches, worker, activation, messageEvent >>

\* FetchFallback looking for the root before index.html
FetchFallbackRootFirst ==
  /\ fetchEvent.pc = "fallback"
  /\ LET index == Resolve(BASE_PATH \o << "/index", ".html" >>)
         root == Resolve(BASE_PATH \o << "/" >>)
         last == Resolve(<< "/index", ".html" >>)
     IN fetchEvent' =
          [fetchEvent EXCEPT
             !.pc = "done",
             !.response = IF CachesMatch(caches, root) THEN CachedResponse(root)
                          ELSE IF CachesMatch(caches, index) THEN CachedResponse(index)
                          ELSE IF CachesMatch(caches, last) THEN CachedResponse(last)
                          ELSE NetworkError]
  /\ UNCHANGED << coreVars, pureVars, demoVars, caches, worker, activation, pendingPuts, messageEvent >>

\* handleFetchAsync, catch: the cached index.html, root or /index.html for a
\* navigation, or the error again
FetchFallback ==
  /\ fetchEvent.pc = "fallback"
  /\ LET index == Resolve(BASE_PATH \o << "/index", ".html" >>)
         root == Resolve(BASE_PATH \o << "/" >>)
         last == Resolve(<< "/index", ".html" >>)
     IN fetchEvent' =
          [fetchEvent EXCEPT
             !.pc = "done",
             !.response = IF CachesMatch(caches, index) THEN CachedResponse(index)
                          ELSE IF CachesMatch(caches, root) THEN CachedResponse(root)
                          ELSE IF CachesMatch(caches, last) THEN CachedResponse(last)
                          ELSE NetworkError]
  /\ UNCHANGED << coreVars, pureVars, demoVars, caches, worker, activation, pendingPuts, messageEvent >>

\* cacheResource(request, response): open the dynamic cache and put; an
\* error is logged and swallowed
CacheResource ==
  /\ \E url \in pendingPuts :
       /\ pendingPuts' = pendingPuts \ { url }
       /\ \E ok \in BOOLEAN :
            caches' = IF ok
                      THEN CachePut(CachesOpen(caches, CACHE_NAME), CACHE_NAME, { url })
                      ELSE CachesOpen(caches, CACHE_NAME)
  /\ UNCHANGED << coreVars, pureVars, demoVars, worker, activation, fetchEvent, messageEvent >>

KnownMessageTypes == { JsStr("SKIP_WAITING"), JsStr("TRACK_USAGE_TIME") }

\* event.data?.type
MessageType(data) == IF data.present THEN data.type ELSE JsUndefined

\* handleMessage(event), called with the given number of calls on the stack:
\* how the call ends
RECURSIVE handleMessage(_, _)
handleMessage(data, depth) ==
  IF depth > MaxCallStack THEN "RangeError"
  ELSE IF MessageType(data) \in KnownMessageTypes THEN "waitUntil"
  ELSE handleMessage(data, depth + 1)

\* the message listener: handleMessage and, where it is reached,
\* handleMessageAsync
HandleMessage ==
  /\ worker.state \in { "installing", "installed", "activating", "activated" }
  /\ \E data \in SwMessages :
       LET result == handleMessage(data, 1)
           type == MessageType(data)
       IN IF result = "RangeError"
          THEN /\ messageEvent' = [data |-> data, dispatched |-> TRUE, result |-> "RangeError",
                                   logged |-> "Uncaught error", skipWaiting |-> FALSE,
                                   replied |-> FALSE]
               /\ UNCHANGED worker
          ELSE IF type = JsStr("SKIP_WAITING")
          THEN /\ messageEvent' = [data |-> data, dispatched |-> TRUE, result |-> "returned",
                                   logged |-> "Received SKIP_WAITING message",
                                   skipWaiting |-> TRUE, replied |-> FALSE]
               /\ worker' = [worker EXCEPT !.skipWaiting = TRUE]
          ELSE IF type = JsStr("TRACK_USAGE_TIME")
          THEN /\ messageEvent' = [data |-> data, dispatched |-> TRUE, result |-> "returned",
                                   logged |-> "Tracking usage time",
                                   skipWaiting |-> FALSE, replied |-> TRUE]
               /\ UNCHANGED worker
          ELSE /\ messageEvent' = [data |-> data, dispatched |-> TRUE, result |-> "returned",
                                   logged |-> "Unknown message type",
                                   skipWaiting |-> FALSE, replied |-> FALSE]
               /\ UNCHANGED worker
  /\ fetchEvent' = FetchInProgress
  /\ UNCHANGED << coreVars, pureVars, demoVars, caches, activation, pendingPuts >>

NextSw ==
  \/ Register
  \/ InstallOpen
  \/ InstallAddAll
  \/ ActivateKeys
  \/ ActivateDelete
  \/ ActivateClaim
  \/ HandleFetch
  \/ FetchMatch
  \/ FetchNetwork
  \/ FetchFallback
  \/ CacheResource
  \/ HandleBackgroundSync
  \/ HandleMessage

SpecSw == InitSw /\ [][NextSw]_vars

\* the seven precache URLs and the URL of the ledger file, written out
AppRoot == << "https://", "mothepro.github.io", "/verify-bitcoin-message" >>
PrecacheUrls ==
  { AppRoot \o << "/" >>,
    AppRoot \o << "/index", ".html" >>,
    AppRoot \o << "/demo", ".js" >>,
    AppRoot \o << "/verify", ".js" >>,
    AppRoot \o << "/css", "/pico", ".min", ".css" >>,
    AppRoot \o << "/manifest", ".json" >>,
    AppRoot \o << "/favicon", ".svg" >> }
PayloadsUrl == AppRoot \o << "/payloads", ".json" >>

CurrentVersionNames ==
  { "bitcoin-message-verifier-static-v0", "bitcoin-message-verifier-v0" }

\* C11: in the step in which handleActivate completes (clients.claim), every
\* deletion it started has finished, the caches that exist are exactly those
\* that existed when the activation read caches.keys() and carry one of the
\* two current-version names, and these hold the entries they held then.
\* (Fetch and sync events reach a worker only once it is activated, and the
\* message handler touches no cache, so nothing else writes caches during an
\* activation.)
C11_ActivationKeepsCurrentCachesOnly ==
  [][ (worker.state = "activating" /\ worker'.state = "activated") =>
        /\ activation.pending = {}
        /\ worker'.claimed
        /\ DOMAIN caches' = DOMAIN activation.before \cap CurrentVersionNames
        /\ \A name \in DOMAIN caches' : caches'[name] = activation.before[name] ]_vars

\* the second worker was activated: the dynamic cache filled under the first
\* one is still there, and a stale cache was deleted
C11_Witness ==
  /\ worker.state = "activated"
  /\ worker.generation = 2
  /\ "bitcoin-message-verifier-v0" \in DOMAIN activation.before
  /\ "bitcoin-message-verifier-v0" \in DOMAIN caches
  /\ caches["bitcoin-message-verifier-v0"] # {}
  /\ DOMAIN caches \subseteq CurrentVersionNames

\* C12 as stated: after a successful handleInstall the static cache holds
\* exactly the seven precache URLs.
C12_InstallLeavesExactlyPrecache ==
  worker.state = "installed" =>
    /\ "bitcoin-message-verifier-static-v0" \in DOMAIN caches
    /\ caches["bitcoin-message-verifier-static-v0"] = PrecacheUrls

\* C12, amended: after a successful handleInstall the static cache holds the
\* seven precache URLs, and besides them only what a background sync under an
\* earlier worker stored there, the ledger file.
C12_InstallLeavesPrecacheAndSynced ==
  worker.state = "installed" =>
    /\ "bitcoin-message-verifier-static-v0" \in DOMAIN caches
    /\ PrecacheUrls \subseteq caches["bitcoin-message-verifier-static-v0"]
    /\ caches["bitcoin-message-verifier-static-v0"] \subseteq PrecacheUrls \cup { PayloadsUrl }

\* the install of an updated worker succeeded after a background sync
C12_Witness ==
  /\ worker.state = "installed"
  /\ worker.generation = 2
  /\ caches["bitcoin-message-verifier-static-v0"] = PrecacheUrls \cup { PayloadsUrl }

\* C13: for a same-origin GET request given to handleFetchAsync, if some
\* cache held the request's URL when caches.match looked, the response is the
\* cached one and no network fetch is issued; otherwise the request goes to
\* the network, once.
C13_CacheFirst ==
  ( /\ fetchEvent.handledBy = "handleFetchAsync"
    /\ fetchEvent.request.origin = << "https://", "mothepro.github.io" >>
    /\ fetchEvent.pc \in { "network", "fallback", "done" } ) =>
    LET url == fetchEvent.request.origin \o fetchEvent.request.pathname
        hit == \E name \in DOMAIN fetchEvent.seen : url \in fetchEvent.seen[name]
    IN IF hit
       THEN /\ fetchEvent.pc = "done"
            /\ fetchEvent.response = [kind |-> "cache", url |-> url, params |-> <<>>]
            /\ fetchEvent.fetches = 0
       ELSE /\ fetchEvent.pc = "network" => fetchEvent.fetches = 0
            /\ fetchEvent.pc # "network" => fetchEvent.fetches = 1
            /\ fetchEvent.pc = "done" /\ fetchEvent.response.kind = "cache" =>
                 fetchEvent.request.mode = "navigate"

\* the ledger file was served from the dynamic cache without a network fetch
C13_Witness ==
  /\ fetchEvent.handledBy = "handleFetchAsync"
  /\ fetchEvent.pc = "done"
  /\ fetchEvent.response = [kind |-> "cache", url |-> PayloadsUrl, params |-> <<>>]
  /\ fetchEvent.fetches = 0
  /\ PayloadsUrl \notin fetchEvent.seen["bitcoin-message-verifier-static-v0"]

\* C14: handleFetch calls respondWith exactly for the POST requests to the
\* app root (the share target) and the GET requests of the worker's origin;
\* every other request is left to the browser.
C14_RespondsToShareTargetAndSameOriginGetOnly ==
  fetchEvent.handledBy # "none" =>
    ( fetchEvent.handledBy \in { "handleSharedFiles", "handleFetchAsync" }
      <=> /\ fetchEvent.request.origin = << "https://", "mothepro.github.io" >>
          /\ \/ fetchEvent.request.method = "GET"
             \/ /\ fetchEvent.request.method = "POST"
                /\ fetchEvent.request.pathname = << "/verify-bitcoin-message" >> )

\* C15: the share target redirects to the bare root when no file was shared,
\* to the root with address, message and signature when the first file is
\* JSON with the three, and to the root with the raw text as message for
\* every other text.
C15_ShareTargetRedirect ==
  ( fetchEvent.handledBy = "handleSharedFiles" /\ fetchEvent.request.multipart ) =>
    LET files == fetchEvent.request.files
        root == AppRoot \o << "/" >>
    IN /\ fetchEvent.response.kind = "redirect"
       /\ fetchEvent.response.url = root
       /\ fetchEvent.response.params =
            IF files = <<>> THEN <<>>
            ELSE IF files[1] = "{address,message,signature}"
            THEN << << "address", "A" >>, << "message", "M" >>, << "signature", "S" >> >>
            ELSE << << "message", files[1] >> >>

\* C16: the message handler returns on every message; for a message whose
\* type is neither SKIP_WAITING nor TRACK_USAGE_TIME it logs the unknown type
\* and neither calls skipWaiting nor posts a reply nor touches a cache.
C16_UnknownMessageLoggedAndIgnored ==
  messageEvent.dispatched =>
    /\ messageEvent.result = "returned"
    /\ ( ~messageEvent.data.present
         \/ messageEvent.data.type \notin { JsStr("SKIP_WAITING"), JsStr("TRACK_USAGE_TIME") } ) =>
         /\ messageEvent.logged = "Unknown message type"
         /\ ~messageEvent.skipWaiting
         /\ ~messageEvent.replied

\* ------------------------------------------------------------------------
\* The demo page (src/demo.ts)
\* ------------------------------------------------------------------------

\* await verify({ message: bytes, address, signature }): does it resolve
\* true (it rejects otherwise)
verifyResolves(address, bytes, signature) ==
  /\ ~AtobThrows(signature)
  /\ LET decoded == base64ToBytes(signature)
     IN /\ Len(decoded) = SignatureLength
        /\ decoded[1] >= MinRecoveryFlag
        /\ decoded[1] <= MaxRecoveryFlag
        /\ LET hash == createMessageHash(bytes)
               data == Slice(decoded, 1, SignatureLength)
           IN \E id \in 0..(RecoveryIds - 1) :
                LET key == recoverPublicKey(hash, data, id)
                IN /\ key # null
                   /\ \E c \in BOOLEAN : publicKeyToAddress(key, c) = address

\* an entry of payloads.json: a payload that verifies.  The address is the
\* one of the compressed key G; the file holds it written out.
ValidPayload ==
  [address |-> << 0, 3, 44, 9 >>,
   message |-> << 97 >>,
   signature |-> BytesToBase64(SignatureBytes(27, 2, 1))]

\* the same with a signature of 64 bytes
InvalidPayload ==
  [ValidPayload EXCEPT !.signature = BytesToBase64(Slice(SignatureBytes(27, 2, 1), 0, 64))]

\* the same with a well-formed signature of another message
WrongPayload ==
  [ValidPayload EXCEPT !.signature = BytesToBase64(SignatureBytes(27, 1, 1))]

\* the valid payload with its message written in hex
HexPayload == [ValidPayload EXCEPT !.message = << 48, 120, 54, 49 >>]

\* what the user types, pastes or follows a link to
DemoPayloads == { ValidPayload, InvalidPayload, HexPayload }

\* the payloads on which await verify({ message: bytes, address, signature })
\* resolves true; the page is loaded only where verifyResolves agrees
DemoVerified == { ValidPayload, HexPayload }

DisplayKeys ==
  { "verify-attempted-display", "verified-display", "error-display",
    "verify-completed-display" }

\* for each key: classList.add(key-false), classList.remove(key-true)
ResetDisplay(classes) ==
  (classes \ { key \o "-true" : key \in DisplayKeys })
    \cup { key \o "-false" : key \in DisplayKeys }

\* classList.add(key-true), classList.remove(key-false)
SetDisplay(classes, key) == (classes \ { key \o "-false" }) \cup { key \o "-true" }

\* String.prototype.trim
Trim(str) ==
  IF \A i \in 1..Len(str) : IsSpace(str[i]) THEN <<>>
  ELSE LET first == CHOOSE i \in 1..Len(str) :
                      ~IsSpace(str[i]) /\ \A k \in 1..(i - 1) : IsSpace(str[k])
           last == CHOOSE i \in 1..Len(str) :
                     ~IsSpace(str[i]) /\ \A k \in (i + 1)..Len(str) : IsSpace(str[k])
       IN SubSeq(str, first, last)

\* the page as the listeners of one task see and leave it
PageState == [form |-> form, runs |-> runs, body |-> body, page |-> page, latest |-> latest]

\* verifySignature() up to await verify(...): the payload is read from the
\* form and trimmed (an address and a signature of the model carry no
\* whitespace), the classes are reset, the attempt is shown and the outcome
\* panel is emptied
verifySignatureCall(st) ==
  LET read == [address |-> st.form.address, message |-> Trim(st.form.message),
               signature |-> st.form.signature]
  IN [st EXCEPT !.runs = Append(@, read),
                !.body = SetDisplay(ResetDisplay(@), "verify-attempted-display"),
                !.page.panel = [address |-> <<>>, message |-> <<>>, errorReason |-> ""],
                !.latest = read]

BASE58_ALPHABET ==
  << 49, 50, 51, 52, 53, 54, 55, 56, 57, 65, 66, 67, 68, 69, 70, 71, 72, 74,
     75, 76, 77, 78, 80, 81, 82, 83, 84, 85, 86, 87, 88, 89, 90, 97, 98, 99,
     100, 101, 102, 103, 104, 105, 106, 107, 109, 110, 111, 112, 113, 114,
     115, 116, 117, 118, 119, 120, 121, 122 >>

\* the alphabet of btoa, and '='
Base64Alphabet ==
  << 65, 66, 67, 68, 69, 70, 71, 72, 73, 74, 75, 76, 77, 78, 79, 80, 81, 82,
     83, 84, 85, 86, 87, 88, 89, 90, 97, 98, 99, 100, 101, 102, 103, 104,
     105, 106, 107, 108, 109, 110, 111, 112, 113, 114, 115, 116, 117, 118,
     119, 120, 121, 122, 48, 49, 50, 51, 52, 53, 54, 55, 56, 57, 43, 47, 61 >>

\* The text of the clipboard is a sequence of lines.  A line is kept twice:
\* as its characters, and as the positions an address or a signature has in
\* its alphabet; a line that is neither is kept as characters outside both
\* alphabets.
AddressLine(address) ==
  [chars |-> [i \in 1..Len(address) |-> BASE58_ALPHABET[address[i] + 1]], field |-> address]
SignatureLine(signature) ==
  [chars |-> [i \in 1..Len(signature) |-> Base64Alphabet[signature[i] + 1]],
   field |-> signature]
TextLine(chars) == [chars |-> chars, field |-> [i \in 1..Len(chars) |-> NotBase58]]

SignedMessagePrefix ==
  << 45, 45, 45, 45, 45, 66, 69, 71, 73, 78, 32, 66, 73, 84, 67, 79, 73, 78,
     32, 83, 73, 71, 78, 69, 68, 32, 77, 69, 83, 83, 65, 71, 69, 45, 45, 45,
     45, 45 >>
BitcoinSignaturePrefix ==
  << 45, 45, 45, 45, 45, 66, 69, 71, 73, 78, 32, 66, 73, 84, 67, 79, 73, 78,
     32, 83, 73, 71, 78, 65, 84, 85, 82, 69, 45, 45, 45, 45, 45 >>
BitcoinSignatureSuffix ==
  << 45, 45, 45, 45, 45, 69, 78, 68, 32, 66, 73, 84, 67, 79, 73, 78, 32, 83,
     73, 71, 78, 65, 84, 85, 82, 69, 45, 45, 45, 45, 45 >>
InputsIOSignaturePrefix ==
  << 45, 45, 45, 45, 45, 66, 69, 71, 73, 78, 32, 83, 73, 71, 78, 65, 84, 85,
     82, 69, 45, 45, 45, 45, 45 >>
InputsIOSuffix ==
  << 45, 45, 45, 45, 45, 69, 78, 68, 32, 66, 73, 84, 67, 79, 73, 78, 32, 83,
     73, 71, 78, 69, 68, 32, 77, 69, 83, 83, 65, 71, 69, 45, 45, 45, 45, 45 >>

\* the block a wallet writes: message, then address and signature
SignedMessageText(p) ==
  << TextLine(SignedMessagePrefix), TextLine(p.message), TextLine(BitcoinSignaturePrefix),
     AddressLine(p.address), SignatureLine(p.signature), TextLine(BitcoinSignatureSuffix) >>

\* the block of brainwalletx.github.io
InputsIOText(p) ==
  << TextLine(SignedMessagePrefix), TextLine(p.message), TextLine(InputsIOSignaturePrefix),
     AddressLine(p.address), SignatureLine(p.signature), TextLine(InputsIOSuffix) >>

\* {"address":"...","message":"...","signature":"..."}
JsonText(p) ==
  << TextLine(<< 123, 34, 97, 100, 100, 114, 101, 115, 115, 34, 58, 34 >>
                \o AddressLine(p.address).chars
                \o << 34, 44, 34, 109, 101, 115, 115, 97, 103, 101, 34, 58, 34 >>
                \o p.message
                \o << 34, 44, 34, 115, 105, 103, 110, 97, 116, 117, 114, 101, 34, 58, 34 >>
                \o SignatureLine(p.signature).chars \o << 34, 125 >>) >>

\* {"message":"a"}
JsonMessageOnlyText ==
  << TextLine(<< 123, 34, 109, 101, 115, 115, 97, 103, 101, 34, 58, 34, 97, 34, 125 >>) >>

\* hello
PlainText == << TextLine(<< 104, 101, 108, 108, 111 >>) >>

\* what the clipboard holds on a paste: a plain word, JSON with and without
\* the three fields, a block of either kind with an empty line after it, and
\* two blocks copied together
PasteTexts ==
  { PlainText, JsonMessageOnlyText, JsonText(ValidPayload),
    SignedMessageText(HexPayload) \o << TextLine(<<>>) >>,
    InputsIOText(InvalidPayload),
    SignedMessageText(ValidPayload) \o InputsIOText(InvalidPayload) }

\* text.trim(): without the empty lines at both ends
TrimLines(text) ==
  LET kept == { i \in 1..Len(text) : Trim(text[i].chars) # <<>> }
  IN IF kept = {} THEN <<>>
     ELSE LET first == CHOOSE i \in kept : \A k \in kept : i <= k
              last == CHOOSE i \in kept : \A k \in kept : i >= k
          IN SubSeq(text, first, last)

\* the characters of the lines, '\n' between them
RECURSIVE JoinLines(_, _, _)
JoinLines(text, lo, hi) ==
  IF lo > hi THEN <<>>
  ELSE IF lo = hi THEN text[lo].chars
  ELSE LET mid == (lo + hi) \div 2
       IN JoinLines(text, lo, mid) \o << 10 >> \o JoinLines(text, mid + 1, hi)

\* text.indexOf(line): the 0-based place, in lines, of the first line that
\* is the one looked for, or -1; every text looked for fills a line
IndexOf(text, line) ==
  LET places == { i \in 1..Len(text) : text[i].chars = line }
  IN IF places = {} THEN -1
     ELSE (CHOOSE i \in places : \A k \in places : i <= k) - 1

\* JSON.parse of the clipboard's text: the blocks and the plain word are not
\* JSON
JsonParseText(text) ==
  IF \E p \in DemoPayloads : text = JsonText(p)
  THEN LET p == CHOOSE q \in DemoPayloads : text = JsonText(q)
       IN [throws |-> FALSE, address |-> p.address, message |-> p.message,
           signature |-> p.signature]
  ELSE IF text = JsonMessageOnlyText
  THEN [throws |-> FALSE, address |-> <<>>, message |-> << 97 >>, signature |-> <<>>]
  ELSE [throws |-> TRUE, address |-> <<>>, message |-> <<>>, signature |-> <<>>]

\* handleJsonPaste(maybeJson)
handleJsonPaste(st, maybeJson) ==
  LET object == JsonParseText(maybeJson)
  IN IF ~object.throws /\ object.address # <<>> /\ object.message # <<>>
        /\ object.signature # <<>>
     THEN verifySignatureCall(
            [st EXCEPT !.form = [address |-> object.address, message |-> object.message,
                                 signature |-> object.signature]])
     ELSE st

\* the body shared by handleSignedMessagePaste and
\* handleSignedInputsIOMessagePaste: the message is what stands between the
\* prefix and the signature prefix, the address and the signature are the
\* first two lines between the signature prefix and the suffix; a line that
\* is missing is undefined, which an input shows as the text undefined
ParseSignedMessage(st, maybeSignedMessage, prefix, signaturePrefix, suffix) ==
  IF \/ maybeSignedMessage = <<>>
     \/ \E line \in { prefix, signaturePrefix, suffix } : IndexOf(maybeSignedMessage, line) = -1
  THEN st
  ELSE LET mStart == 1 + IndexOf(maybeSignedMessage, prefix)
           mEnd == IndexOf(maybeSignedMessage, signaturePrefix)
           sStart == 1 + IndexOf(maybeSignedMessage, signaturePrefix)
           sEnd == IndexOf(maybeSignedMessage, suffix)
           between == Slice(maybeSignedMessage, mStart, mEnd)
           lines == TrimLines(Slice(maybeSignedMessage, sStart, sEnd))
           Undefined == TextLine(<< 117, 110, 100, 101, 102, 105, 110, 101, 100 >>)
       IN verifySignatureCall(
            [st EXCEPT !.form =
               [address |-> IF Len(lines) >= 1 THEN lines[1].field ELSE <<>>,
                message |-> Trim(JoinLines(between, 1, Len(between))),
                signature |-> IF Len(lines) >= 2 THEN lines[2].field
                              ELSE Undefined.field]])

handleSignedMessagePaste(st, maybeSignedMessage) ==
  ParseSignedMessage(st, maybeSignedMessage, SignedMessagePrefix, BitcoinSignaturePrefix,
                     BitcoinSignatureSuffix)

handleSignedInputsIOMessagePaste(st, maybeSignedMessage) ==
  ParseSignedMessage(st, maybeSignedMessage, SignedMessagePrefix, InputsIOSignaturePrefix,
                     InputsIOSuffix)

\* the payloads the paste listeners read out of the texts
PastedPayloads ==
  LET blank == [form |-> NoPayload, runs |-> <<>>, body |-> {}, page |-> NoPage,
                latest |-> NoPayload]
  IN UNION { { handleJsonPaste(blank, TrimLines(text)).latest,
               handleSignedMessagePaste(blank, TrimLines(text)).latest,
               handleSignedInputsIOMessagePaste(blank, TrimLines(text)).latest } :
             text \in PasteTexts } \ { NoPayload }

\* verify as the page sees it: what it resolves to on every payload the page
\* can hand to it
VerifyAgrees ==
  /\ ValidPayload.address = base58Encode(AddressPayload(P2PKHVersion, G, TRUE))
  /\ \A p \in DemoPayloads \cup PastedPayloads :
       (p \in DemoVerified)
         = verifyResolves(p.address, ParsedBytes(p.message), p.signature)

\* the page as loaded: without a signature in the URL, or with one, when
\* verifySignature has been called and the classes were reset after it
InitDemo ==
  /\ VerifyIdle
  /\ PureIdle
  /\ SwIdle
  /\ VerifyAgrees
  /\ body = ResetDisplay({})
  /\ event = [task |-> "load", text |-> <<>>]
  /\ \/ /\ form = NoPayload
        /\ runs = <<>>
        /\ page = NoPage
        /\ latest = NoPayload
     \/ /\ form \in DemoPayloads
        /\ runs = << form >>
        /\ page = [NoPage EXCEPT !.url = [address |-> form.address, message |-> form.message,
                                          signature |-> form.signature, isHex |-> ""]]
        /\ latest = form

\* one task of the page: its listeners take the page from PageState to st
RunTask(st, task, text) ==
  /\ Len(st.runs) <= MaxPendingRuns
  /\ form' = st.form
  /\ runs' = st.runs
  /\ body' = st.body
  /\ page' = st.page
  /\ latest' = st.latest
  /\ event' = [task |-> task, text |-> text]
  /\ UNCHANGED << coreVars, pureVars, swVars >>

\* verifySignature() called on the given values of the inputs
verifySignatureStart(values, task) ==
  RunTask(verifySignatureCall([PageState EXCEPT !.form = values]), task, <<>>)

\* the submit listener: verifySignature() on the form as it is
Submit ==
  /\ form \in DemoPayloads
  /\ verifySignatureStart(form, "submit")

\* handlePayloadClick: the inputs are set from the link of an entry of
\* payloads.json, then verifySignature()
PayloadClick ==
  /\ Len(runs) < MaxPendingRuns
  /\ verifySignatureStart(ValidPayload, "click")

\* the three paste listeners of the message input, in the order they were
\* added: handleJsonPaste, handleSignedMessagePaste and
\* handleSignedInputsIOMessagePaste, each on the trimmed text
Paste ==
  /\ Len(runs) <= MaxPendingRuns
  /\ \E clipboardData \in PasteTexts :
       LET text == TrimLines(clipboardData)
           first == handleJsonPaste(PageState, text)
           second == handleSignedMessagePaste(first, text)
           third == handleSignedInputsIOMessagePaste(second, text)
       IN RunTask(third, "paste", clipboardData)

\* the user edits the inputs
EditForm ==
  /\ \E values \in DemoPayloads : form' = values
  /\ form' # form
  /\ event' = [task |-> "input", text |-> <<>>]
  /\ UNCHANGED << coreVars, pureVars, swVars, body, runs, page, latest >>

\* does await verify(...) resolve true on the call's payload
VerifiedRun(run) == run \in DemoVerified

\* verifySignature's finally: the JSON view and the URL, which is the current
\* one with address, message and signature set, and isHex set when hex is
\* truthy
ShowCompleted(shown, run) ==
  LET hex == parsePayload(run.message).hex
  IN [shown EXCEPT
        !.json = [address |-> run.address, message |-> run.message,
                  signature |-> run.signature],
        !.url = [address |-> run.address, message |-> run.message,
                 signature |-> run.signature,
                 isHex |-> IF hex.defined /\ hex.text # <<>> THEN "on" ELSE @.isHex]]

\* verifySignature() from the settling of verify on: try, catch and finally.
\* The calls are settled in any order: a call that rejects on the shape of
\* the signature settles while an earlier call still awaits its digests.
\* The reason of an error is kept as the text "error.message".
VerifySignatureSettle ==
  /\ \E i \in 1..Len(runs) :
       LET run == runs[i]
           isValid == VerifiedRun(run)
           shown == IF isValid THEN SetDisplay(body, "verified-display")
                    ELSE SetDisplay(body, "error-display")
           panel == IF isValid
                    THEN [page EXCEPT !.panel.address = run.address,
                                      !.panel.message = run.message]
                    ELSE [page EXCEPT !.panel.errorReason = "error.message"]
       IN /\ body' = SetDisplay(shown, "verify-completed-display")
          /\ runs' = SubSeq(runs, 1, i - 1) \o SubSeq(runs, i + 1, Len(runs))
          /\ page' = ShowCompleted(panel, run)
  /\ event' = [task |-> "settled", text |-> <<>>]
  /\ UNCHANGED << coreVars, pureVars, swVars, form, latest >>

NextDemo ==
  \/ Submit
  \/ PayloadClick
  \/ Paste
  \/ EditForm
  \/ VerifySignatureSettle

SpecDemo == InitDemo /\ [][NextDemo]_vars

\* C17: the classes verified-display-true and error-display-true are never
\* both set on the body.
C17_VerifiedAndErrorExclusive ==
  ~( "verified-display-true" \in body /\ "error-display-true" \in body )

\* C25: when a call of verifySignature completes, the address, message and
\* signature of the page URL are those of the call's payload, and isHex is
\* "on" in the URL exactly when the message of that payload was read as hex.
C25_UrlDescribesVerifiedPayload ==
  [][ Len(runs') < Len(runs) =>
        \E i \in 1..Len(runs) :
          LET run == runs[i]
              hex == parsePayload(run.message).hex
          IN /\ runs' = SubSeq(runs, 1, i - 1) \o SubSeq(runs, i + 1, Len(runs))
             /\ page'.url.address = run.address
             /\ page'.url.message = run.message
             /\ page'.url.signature = run.signature
             /\ (page'.url.isHex = "on") = (hex.defined /\ hex.text # <<>>) ]_vars

\* what the three paste listeners would leave of the page if a parser that
\* fails changed nothing and the parsers after the first one that succeeds
\* did nothing: a parser has succeeded when it has called verifySignature
FirstParserOnly(st, text) ==
  LET json == handleJsonPaste(st, text)
      signed == handleSignedMessagePaste(st, text)
      inputsIO == handleSignedInputsIOMessagePaste(st, text)
  IN IF json.runs # st.runs THEN json
     ELSE IF signed.runs # st.runs THEN signed
     ELSE IF inputsIO.runs # st.runs THEN inputsIO
     ELSE st

\* C26: a paste into the message input leaves the form, the classes, the
\* panel and the pending calls as the first parser that succeeds on the text
\* leaves them, and as they were when no parser succeeds: a parser that fails
\* changes no field and starts no call, and no second parser overwrites the
\* fields or starts a second call.
C26_OneParserPerPaste ==
  [][ event'.task = "paste" =>
        LET claimed == FirstParserOnly(PageState, TrimLines(event'.text))
        IN /\ form' = claimed.form
           /\ runs' = claimed.runs
           /\ body' = claimed.body
           /\ page' = claimed.page ]_vars

\* C28: once every call of verifySignature has finished, the JSON view, the
\* page URL and the outcome panel are those of the call that was started
\* last.
C28_LastStartedCallShown ==
  ( runs = <<>> /\ latest # NoPayload ) =>
    /\ page.json = latest
    /\ page.url.address = latest.address
    /\ page.url.message = latest.message
    /\ page.url.signature = latest.signature
    /\ IF VerifiedRun(latest)
       THEN /\ "verified-display-true" \in body
            /\ page.panel.address = latest.address
            /\ page.panel.message = latest.message
            /\ page.panel.errorReason = ""
       ELSE /\ "error-display-true" \in body
            /\ page.panel.address = <<>>
            /\ page.panel.message = <<>>
            /\ page.panel.errorReason = "error.message"

\* verify called through verifySafe on signatures that differ in the flag
\* only: every flag of the range with every small r and s
FlagSignatures ==
  { BytesToBase64(SignatureBytes(flag, r, s)) :
      flag \in MinRecoveryFlag..MaxRecoveryFlag, r \in 1..MaxScalar, s \in 1..MaxScalar }

FlagPayloads ==
  [address : { base58Encode(AddressPayload(P2PKHVersion, G, c)) : c \in BOOLEAN },
   message : Messages,
   signature : FlagSignatures]

InitFlag ==
  /\ PureIdle
  /\ SwIdle
  /\ DemoIdle
  /\ options = NoOptions
  /\ entry = "verifySafe"
  /\ payload \in FlagPayloads
  /\ pc = "decode"
  /\ Start

NextFlag ==
  \/ VerifyDecode
  \/ VerifyFlag
  \/ VerifyHash
  \/ VerifyRecover
  \/ VerifyAddress
  \/ VerifyFail
  \/ VerifySafeReturn
  \/ VerifySafeCatch

SpecFlag == InitFlag /\ [][NextFlag]_vars

\* the signature of the payload with another flag byte
WithFlag(flag) == BytesToBase64(<< flag >> \o Slice(base64ToBytes(payload.signature), 1, 65))

\* C21: once verify has settled on a signature of 65 bytes with a flag in
\* 27..34, it resolved true if and only if verify resolves true on the same
\* address and message with the signature of the same r and s and any other
\* flag in 27..34.
C21_FlagIsUntrusted ==
  ( VerifySettled /\ ShapeValidSignature ) =>
    \A flag \in 27..34 :
      ( outcome = ResolvedTrue
        <=> verifyResolves(payload.address, MessageBytes(message), WithFlag(flag)) )

\* verify resolved true on a signature with the flag 34, the last recovery
\* id and compressed, though the matching key came from another id
C21_Witness ==
  /\ VerifySettled
  /\ outcome = ResolvedTrue
  /\ base64ToBytes(payload.signature)[1] = 34
  /\ calls[Len(calls)].id # 3

\* the point lies on y^2 = x^3 + 7 (mod P)
OnCurve(point) ==
  (point.y * point.y) % SECP256K1_P
    = (point.x * point.x * point.x + 7) % SECP256K1_P

\* the candidate point R of recoverPublicKey
CandidateR(signature, recoveryId) ==
  LET r == BytesToBigInt(Slice(signature, 0, 32))
      x == r + (recoveryId \div 2) * SECP256K1_N
      y0 == modPow((x * x * x + 7) % SECP256K1_P, (SECP256K1_P + 1) \div 4, SECP256K1_P)
  IN [x |-> x, y |-> IF y0 % 2 # recoveryId % 2 THEN SECP256K1_P - y0 ELSE y0]

\* C29: whenever recoverPublicKey has returned a point, the point and the
\* candidate R it was computed from lie on the curve.
C29_RecoveredPointsOnCurve ==
  pc = "address" =>
    /\ OnCurve(CandidateR(signatureData, testRecoveryId))
    /\ OnCurve(publicKey)

\* r and s of the decoded signature
SignatureR == BytesToBigInt(Slice(signatureData, 0, 32))
SignatureS == BytesToBigInt(Slice(signatureData, 32, 64))

\* C30: for a signature of valid shape with r = 0 or s = 0 recoverPublicKey
\* returns null for every recovery id: verify derives no address, never
\* resolves true and, once all four ids are tried, rejects with the recovery
\* failure.
C30_ZeroComponentNeverVerifies ==
  ( pc \in { "recover", "address", "settled" } /\ ShapeValidSignature
    /\ Len(signatureData) = 64 /\ ( SignatureR = 0 \/ SignatureS = 0 ) ) =>
    /\ pc # "address"
    /\ \A i \in 1..Len(calls) : calls[i].op # "publicKeyToAddress"
    /\ pc = "recover" /\ testRecoveryId < RecoveryIds =>
         recoverPublicKey(messageHash, signatureData, testRecoveryId) = null
    /\ pc = "settled" =>
         /\ outcome = Rejected(JsError("Unable to recover public key from signature"))
         /\ Len(calls) = 1 + RecoveryIds

\* verify rejected a signature with s = 0 and r # 0 after four recoveries
C30_Witness ==
  /\ pc = "settled"
  /\ ShapeValidSignature
  /\ Len(signatureData) = 64
  /\ SignatureS = 0
  /\ SignatureR # 0
  /\ outcome.state = "rejected"
  /\ Len(calls) = 1 + RecoveryIds

\* ------------------------------------------------------------------------
\* verify-bitcoin-message with and without --hex (src/verify.ts 1159-1221)
\* ------------------------------------------------------------------------

\* "a", "61", "0x61", "6A" and "0x6a" as the message argument
HexMessages ==
  { << 97 >>, << 54, 49 >>, << 48, 120, 54, 49 >>, << 54, 65 >>, << 48, 120, 54, 97 >> }

\* --hex absent, --hex and --no-hex
HexOptions == { [hex |-> JsUndefined], [hex |-> JsBool(TRUE)], [hex |-> JsBool(FALSE)] }

InitCli2 ==
  /\ PureIdle
  /\ SwIdle
  /\ DemoIdle
  /\ entry = "cli2"
  /\ payload \in [address : { base58Encode(AddressPayload(P2PKHVersion, G, c)) : c \in BOOLEAN },
                  message : HexMessages,
                  signature : { BytesToBase64(SignatureBytes(27, 2, 1)),
                                BytesToBase64(SignatureBytes(27, 1, 1)) }]
  /\ options \in HexOptions
  /\ pc = "parsePayload"
  /\ Start

NextCli2 ==
  \/ Cli2ParsePayload
  \/ VerifyDecode
  \/ VerifyFlag
  \/ VerifyHash
  \/ VerifyRecover
  \/ VerifyAddress
  \/ VerifyFail
  \/ Cli2Try
  \/ Cli2Catch

SpecCli2 == InitCli2 /\ [][NextCli2]_vars

\* the text is made of hex digits, after an optional 0x
AllHexDigits(str) ==
  LET digits == IF Len(str) >= 2 /\ SubSeq(str, 1, 2) = << 48, 120 >>
                THEN SubSeq(str, 3, Len(str)) ELSE str
  IN /\ digits # <<>>
     /\ Len(digits) % 2 = 0
     /\ \A i \in 1..Len(digits) : HexValue(digits[i]) >= 0

\* the bytes the hex digits of the text stand for
HexDecoding(str) ==
  LET digits == IF Len(str) >= 2 /\ SubSeq(str, 1, 2) = << 48, 120 >>
                THEN SubSeq(str, 3, Len(str)) ELSE str
  IN [i \in 1..(Len(digits) \div 2) |->
        16 * HexValue(digits[2 * i - 1]) + HexValue(digits[2 * i])]

\* C27: with --hex the bytes handed to verify are the hex decoding of the
\* message argument; without it they are what parsePayload's detection gives.
C27_HexOptionForcesHex ==
  ( entry = "cli2" /\ pc # "parsePayload" ) =>
    IF options.hex = JsBool(TRUE)
    THEN AllHexDigits(payload.message) => message.value = HexDecoding(payload.message)
    ELSE message.value = ParsedBytes(payload.message)

\* C22: the step that ends handleInstall either fails, and then no cache
\* changed and handleInstall did not call skipWaiting, or succeeds, and then
\* the static cache holds the whole precache list and skipWaiting was called.
C22_InstallAllOrNothing ==
  [][ ( worker.state = "installing" /\ worker'.state # "installing" ) =>
        IF worker'.state = "redundant"
        THEN /\ caches' = caches
             /\ worker'.skipWaiting = worker.skipWaiting
        ELSE /\ worker'.state = "installed"
             /\ worker'.skipWaiting
             /\ PrecacheUrls \subseteq caches'["bitcoin-message-verifier-static-v0"] ]_vars

\* the first install failed: the static cache was opened and is empty
C22_Witness ==
  /\ worker.state = "redundant"
  /\ worker.generation = 1
  /\ ~worker.skipWaiting
  /\ "bitcoin-message-verifier-static-v0" \in DOMAIN caches
  /\ caches["bitcoin-message-verifier-static-v0"] = {}

\* C23: the step in which the network answers a cache miss returns the
\* network response at once, with no cache written yet; and a cacheResource
\* call that ends later, stored or failed, leaves the returned response as it
\* is.
C23_ResponseDoesNotWaitForCacheWrite ==
  [][ /\ ( fetchEvent.pc = "network" /\ fetchEvent'.pc = "done"
           /\ fetchEvent'.response.kind = "network" ) =>
           /\ fetchEvent'.response =
                [kind |-> "network", params |-> <<>>,
                 url |-> fetchEvent.request.origin \o fetchEvent.request.pathname]
           /\ caches' = caches
           /\ pendingPuts \subseteq pendingPuts'
      /\ ( pendingPuts' # pendingPuts /\ pendingPuts' \subseteq pendingPuts ) =>
           fetchEvent' = fetchEvent ]_vars

\* the ledger file came from the network and is delivered, while cacheResource
\* has opened the dynamic cache and stored nothing: every write failed
C23_Witness ==
  /\ fetchEvent.pc = "done"
  /\ fetchEvent.response = [kind |-> "network", url |-> PayloadsUrl, params |-> <<>>]
  /\ pendingPuts = {}
  /\ "bitcoin-message-verifier-v0" \in DOMAIN caches
  /\ caches["bitcoin-message-verifier-v0"] = {}

\* ------------------------------------------------------------------------
\* The activated worker with entries missing from its caches
\* (src/sw.ts 102-159)
\* ------------------------------------------------------------------------

\* Cache storage belongs to the origin: entries of the static cache can have
\* been deleted since the install, and an earlier request of /index.html at
\* the origin's root can have been stored in the dynamic cache.
OfflineCaches ==
  { [n \in { STATIC_CACHE_NAME, CACHE_NAME } |->
       IF n = STATIC_CACHE_NAME
       THEN { Resolve(file) : file \in ElementsOf(STATIC_FILES) } \ deleted
       ELSE stored] :
      deleted \in SUBSET { Resolve(BASE_PATH \o << "/index", ".html" >>),
                           Resolve(BASE_PATH \o << "/" >>) },
      stored \in SUBSET { Resolve(<< "/index", ".html" >>) } }

InitOffline ==
  /\ VerifyIdle
  /\ PureIdle
  /\ DemoIdle
  /\ caches \in OfflineCaches
  /\ worker = [state |-> "activated", skipWaiting |-> TRUE, claimed |-> TRUE, generation |-> 1]
  /\ activation = NoActivation
  /\ fetchEvent = NoFetchEvent
  /\ pendingPuts = {}
  /\ messageEvent = NoMessageEvent

NextOffline ==
  \/ HandleFetch
  \/ FetchMatch
  \/ FetchNetwork
  \/ FetchFallback
  \/ CacheResource

SpecOffline == InitOffline /\ [][NextOffline]_vars

\* C24: when the network fetch of a handled request has failed, a navigation
\* gets the first of the cached index.html, app root and /index.html, and the
\* failure when none of them is cached; any other request gets the failure.
C24_NavigationFallback ==
  [][ /\ ( fetchEvent.pc = "network" /\ fetchEvent'.pc = "done"
           /\ fetchEvent.request.mode # "navigate" ) =>
           fetchEvent'.response.kind \in { "network", "error" }
      /\ ( fetchEvent.pc = "network" /\ fetchEvent'.pc = "fallback" ) =>
           fetchEvent.request.mode = "navigate"
      /\ ( fetchEvent.pc = "fallback" /\ fetchEvent'.pc # "fallback" ) =>
           LET held(url) == \E name \in DOMAIN caches : url \in caches[name]
               index == AppRoot \o << "/index", ".html" >>
               root == AppRoot \o << "/" >>
               last == << "https://", "mothepro.github.io", "/index", ".html" >>
               cached(url) == [kind |-> "cache", url |-> url, params |-> <<>>]
           IN /\ fetchEvent'.pc = "done"
              /\ fetchEvent'.response =
                   IF held(index) THEN cached(index)
                   ELSE IF held(root) THEN cached(root)
                   ELSE IF held(last) THEN cached(last)
                   ELSE [kind |-> "error", url |-> <<>>, params |-> <<>>] ]_vars

\* a navigation failed on the network while index.html was missing from the
\* caches, and got the cached root
C24_Witness ==
  /\ fetchEvent.pc = "done"
  /\ fetchEvent.request.mode = "navigate"
  /\ fetchEvent.fetches = 1
  /\ fetchEvent.response = [kind |-> "cache", url |-> AppRoot \o << "/" >>, params |-> <<>>]
  /\ \A name \in DOMAIN caches : AppRoot \o << "/index", ".html" >> \notin caches[name]

====
